---------------------------- MODULE Spec2Model ----------------------------
(***************************************************************************)
(* Gesture drawing pipeline of gesture-drawing-verse:                      *)
(*   landmark smoothing -> gesture classification -> stroke rendering.     *)
(*                                                                         *)
(* The repository holds several versions of the same units.  The module    *)
(* models                                                                  *)
(*   - src/src/lib/gestures.ts        the tool-aware classifier            *)
(*   - src/unnamed/part_004           the debounced classifier             *)
(*   - src/src/components/HandTracker.tsx   the caller of the classifier   *)
(*   - src/src/components/DrawingCanvas.tsx the tool selection             *)
(*   - src/unnamed/part_002           the queued, undoable drawing canvas  *)
(* each under a specification of its own (SpecClassify, SpecScale,         *)
(* SpecDebounce, SpecCanvas).  A variable a specification does not use     *)
(* keeps its initial value there.                                          *)
(*                                                                         *)
(* Coordinates of landmarks are integers in hundredths of the normalized   *)
(* frame (0..100 for 0.0..1.0); smoothing weights are in thousandths.      *)
(* Canvas points are exact rationals [x, y, d] standing for (x/d, y/d).    *)
(***************************************************************************)
EXTENDS Integers, Sequences, FiniteSets, TLC

VARIABLES
    \* ---- classifier state (gestures.ts / part_004 module-level lets)
    previousLandmarks,      \* HandLandmark[] kept by smoothLandmarks
    previousGesture,        \* stable gesture of the debounce (part_004)
    gestureDebounceTimer,   \* pending one-shot timer, or NoTimer (part_004)
    \* ---- tool selection (DrawingCanvas.tsx useState)
    currentTool,
    \* ---- drawing canvas (part_002)
    ctxReady,               \* canvasRef.current and ctxRef.current are set
    dpr,                    \* window.devicePixelRatio
    isActiveDrawer,         \* prop
    handLandmarks,          \* prop: the hand of the last frame
    gesture,                \* prop: the gesture of the last frame
    isDrawing,              \* useState
    strokeColor,            \* useState
    strokeWidth,            \* useState
    pointsQueue,            \* pointsQueueRef.current
    lastPosition,           \* lastPositionRef.current
    strokeHistory,          \* useState<ImageData[]>
    surface,                \* the raster: the set of inked path vertices
    animationFrame,         \* animationFrameRef.current is a scheduled callback
    \* ---- game room (GameRoom.tsx useState)
    gameStatus,             \* "waiting", "playing", "round-end" or "game-end"
    timeLeft,               \* seconds left of the round
    roundNumber,
    players,                \* the players' scores
    guessTimer,             \* the pending timeout of the simulated guess
    \* ---- the browser's table of pending timeouts (window.setTimeout)
    timeouts,
    frameRequests,          \* ids of the pending requestAnimationFrame callbacks
    \* ---- shape tools (DrawingCanvas.tsx)
    startPoint,             \* startPointRef: << >> or the start of the shape
    path,                   \* the current path of the 2D context
    committed,              \* history variable: the surface when startPoint was set
    \* ---- observers (history variables, written by every action)
    lastOp,                 \* name of the operation that acted last
    obs,                    \* what that operation was given and what it returned
    calls                   \* number of operations so far (bounded)

vars == << previousLandmarks, previousGesture, gestureDebounceTimer, currentTool,
           ctxReady, dpr, isActiveDrawer, handLandmarks, gesture, isDrawing,
           strokeColor, strokeWidth, pointsQueue, lastPosition,
           strokeHistory, surface, animationFrame,
           gameStatus, timeLeft, roundNumber, players, guessTimer,
           timeouts, frameRequests, startPoint, path, committed, lastOp, obs, calls >>

timerVars == << timeouts, frameRequests >>
shapeVars == << startPoint, path, committed >>
gameVars == << gameStatus, timeLeft, roundNumber, players, guessTimer >>
classifierVars == << previousLandmarks, previousGesture, gestureDebounceTimer >>
canvasVars == << ctxReady, dpr, isActiveDrawer, handLandmarks, gesture, isDrawing,
                 strokeColor, strokeWidth, pointsQueue,
                 lastPosition, strokeHistory, surface, animationFrame, gameVars,
                 shapeVars, timerVars >>

---------------------------------------------------------------------------
(* Enumerations                                                            *)

NONE      == "none"
DRAWING   == "drawing"
ERASING   == "erasing"
LINE      == "line"
RECTANGLE == "rectangle"
CIRCLE    == "circle"
SELECTING == "selecting"

GestureType == { NONE, DRAWING, ERASING, LINE, RECTANGLE, CIRCLE, SELECTING }

Tool == { "draw", "erase", "line", "rectangle", "circle", "select" }

\* detectGesture called without its second argument
UndefinedTool == "undefined"

\* the value observed when a call lets an exception escape
THROWN == "thrown"

---------------------------------------------------------------------------
(* Landmarks and frames                                                    *)

\* a landmark; def = FALSE is a null / undefined array slot
Lm(px, py) == [def |-> TRUE, x |-> px, y |-> py, z |-> 0]
NullLm == [def |-> FALSE, x |-> 0, y |-> 0, z |-> 0]

\* a frame; present = FALSE is an undefined / null landmark array
Frame(s) == [present |-> TRUE, lms |-> s]
AbsentFrame == [present |-> FALSE, lms |-> << >>]

\* landmarks[i] of the source (0-based); a slot past the end is undefined
At(s, i) == IF i + 1 <= Len(s) THEN s[i + 1] ELSE NullLm

Abs(n) == IF n < 0 THEN -n ELSE n
Max(a, b) == IF a >= b THEN a ELSE b

\* floor of the square root, by bisection on lo * lo <= n < hi * hi
RECURSIVE SqrtBetween(_, _, _)
SqrtBetween(n, lo, hi) ==
    IF hi - lo <= 1 THEN lo
    ELSE LET mid == (lo + hi) \div 2
         IN  IF mid * mid <= n THEN SqrtBetween(n, mid, hi)
             ELSE SqrtBetween(n, lo, mid)

\* (the upper end stays below 46341, the root of 2^31)
ISqrt(n) == IF n = 0 THEN 0 ELSE SqrtBetween(n, 0, IF n < 46340 THEN n + 1 ELSE 46341)


---------------------------------------------------------------------------
(* Smoothing: smoothLandmarks                                              *)

\* gestures.ts
smoothingFactor == 500
MinSmoothing == 200
VelocityGain == 6
RaisedThreshold == 8
PinchRatio == 35

\* part_004
smoothingFactor004 == 650
MinSmoothing004 == 300
VelocityGain004 == 5
PinchRatio004 == 30
gestureDebounceDelay == 150

FrameLength == 21

\* prev * w + cur * (1 - w), for a weight of w / one, rounded to the nearest unit
Blend(p, c, w, one) == (p * w + c * (one - w) + one \div 2) \div one

\* Math.sqrt(dx*dx + dy*dy + dz*dz)
Velocity(prev, landmark) ==
    LET dx == landmark.x - prev.x
        dy == landmark.y - prev.y
        dz == landmark.z - prev.z
    IN  ISqrt(dx * dx + dy * dy + dz * dz)

\* a weight without the floor of Math.max
DynSmoothingNoFloor(velocity, base, wmin, gain) == base - velocity * gain

\* Math.max(wmin, smoothingFactor - velocity * gain)
DynSmoothing(velocity, base, wmin, gain) == Max(wmin, base - velocity * gain)

\* the body of the map callback: velocity, dynSmoothing and the blended
\* point; base, wmin and the weight are in units of 1 / one, and gain is the
\* weight one unit of velocity takes off
SmoothPoint(prev, landmark, base, wmin, gain, one) ==
    LET dynSmoothing == DynSmoothing(Velocity(prev, landmark), base, wmin, gain)
    IN  [def |-> TRUE,
         x |-> Blend(prev.x, landmark.x, dynSmoothing, one),
         y |-> Blend(prev.y, landmark.y, dynSmoothing, one),
         z |-> Blend(prev.z, landmark.z, dynSmoothing, one)]

\* the map callback reads a property of an undefined / null value
MapFaults(prev, landmarks) ==
    \E i \in 1..Len(landmarks) :
        \/ ~landmarks[i].def
        \/ i > Len(prev)
        \/ ~prev[i].def

\* JSON.parse(JSON.stringify(landmarks)): a number is written with the
\* digits that read back as the same number; a missing entry comes back as
\* null
JsonClone(landmarks) ==
    [i \in 1..Len(landmarks) |->
        IF landmarks[i].def
        THEN [def |-> TRUE, x |-> landmarks[i].x, y |-> landmarks[i].y,
              z |-> landmarks[i].z]
        ELSE NullLm]

\* a smoother that keeps the raw frame as its state
SmoothStoresRaw(resets, prev, landmarks, base, wmin, gain, one) ==
    IF resets
    THEN [fault |-> FALSE, out |-> landmarks, prev |-> JsonClone(landmarks)]
    ELSE IF MapFaults(prev, landmarks)
    THEN [fault |-> TRUE, out |-> << >>, prev |-> prev]
    ELSE [fault |-> FALSE,
          out |-> [i \in 1..Len(landmarks) |->
                      SmoothPoint(prev[i], landmarks[i], base, wmin, gain, one)],
          prev |-> landmarks]

\* the smoother after its reset test: [fault, out, prev]: whether it threw,
\* what it returned and the stored previousLandmarks afterwards
SmoothOrReset(resets, prev, landmarks, base, wmin, gain, one) ==
    IF resets
    THEN [fault |-> FALSE, out |-> landmarks, prev |-> JsonClone(landmarks)]
    ELSE IF MapFaults(prev, landmarks)
    THEN [fault |-> TRUE, out |-> << >>, prev |-> prev]
    ELSE LET smoothedLandmarks ==
                 [i \in 1..Len(landmarks) |->
                     SmoothPoint(prev[i], landmarks[i], base, wmin, gain, one)]
         IN  [fault |-> FALSE, out |-> smoothedLandmarks, prev |-> smoothedLandmarks]

\* gestures.ts, coordinates in hundredths and weights in thousandths: resets
\* only on an empty stored state
smoothLandmarks(prev, landmarks) ==
    SmoothOrReset(Len(prev) = 0, prev, landmarks,
                  smoothingFactor, MinSmoothing, VelocityGain, 1000)

\* part_004: also resets when the landmark count changed
smoothLandmarks004(prev, landmarks) ==
    SmoothOrReset(Len(prev) = 0 \/ Len(prev) # Len(landmarks), prev, landmarks,
                  smoothingFactor004, MinSmoothing004, VelocityGain004, 1000)

---------------------------------------------------------------------------
(* Geometry of the classifiers                                             *)

Dist2(a, b) == (a.x - b.x) * (a.x - b.x) + (a.y - b.y) * (a.y - b.y)

\* thumbIndexDistance < handScale * ratio / 100, on the squares
IsPinching(s, ratio) ==
    Dist2(At(s, 4), At(s, 8)) * 10000 < ratio * ratio * Dist2(At(s, 5), At(s, 9))

\* the test with the y axis taken to point up
isIndexFingerRaisedAxisUp(s) ==
    IF Len(s) < 13 THEN FALSE
    ELSE At(s, 8).y - At(s, 5).y > RaisedThreshold

\* gestures.ts isIndexFingerRaised: indexMCP.y - indexTip.y > 0.08
isIndexFingerRaised(s) ==
    IF Len(s) < 13 THEN FALSE
    ELSE At(s, 5).y - At(s, 8).y > RaisedThreshold

\* part_004: extension against half the finger length |MCP.y - PIP.y| * 2
isIndexExtended(s) ==
    (At(s, 5).y - At(s, 8).y) * 2 > Abs(At(s, 5).y - At(s, 6).y) * 2

isMiddleExtended(s) ==
    (At(s, 9).y - At(s, 12).y) * 2 > Abs(At(s, 9).y - At(s, 10).y) * 2

\* landmarks whose properties the try block of gestures.ts reads
Needed == { 4, 5, 8, 9 }
\* and those of part_004
Needed004 == { 4, 5, 6, 8, 9, 10, 12 }

GeometryFaults(s, needed) == \E i \in needed : ~At(s, i).def

\* gestures.ts lines 110-121: the switch on currentTool
ToolGesture(tool) ==
    CASE tool = "draw" -> DRAWING
      [] tool = "line" -> LINE
      [] tool = "rectangle" -> RECTANGLE
      [] tool = "circle" -> CIRCLE
      [] OTHER -> NONE

\* gestures.ts lines 104-124: the decision on the smoothed landmarks
Decide(s, tool) ==
    IF IsPinching(s, PinchRatio) /\ tool = "erase" THEN ERASING
    ELSE IF isIndexFingerRaised(s) THEN ToolGesture(tool)
    ELSE NONE

\* part_004 lines 110-117: detectedGesture
Decide004(s) ==
    IF isIndexExtended(s) /\ ~isMiddleExtended(s) /\ ~IsPinching(s, PinchRatio004)
    THEN DRAWING
    ELSE IF IsPinching(s, PinchRatio004) THEN ERASING
    ELSE NONE

\* (mutant) the bound check of the drawing component, 9, in place of 21
InvalidFrameShortCheck(frame) == ~frame.present \/ Len(frame.lms) < 9

\* gestures.ts line 76, part_004 line 66: !landmarks || landmarks.length < 21
InvalidFrame(frame) == ~frame.present \/ Len(frame.lms) < FrameLength

\* gestures.ts detectGesture, the try block: [faulted, ret, prev]
TryDetect(frame, tool, prev) ==
    LET sm == smoothLandmarks(prev, frame.lms)
    IN  IF sm.fault THEN [faulted |-> TRUE, ret |-> NONE, prev |-> sm.prev]
        ELSE IF GeometryFaults(sm.out, Needed)
        THEN [faulted |-> TRUE, ret |-> NONE, prev |-> sm.prev]
        ELSE [faulted |-> FALSE, ret |-> Decide(sm.out, tool), prev |-> sm.prev]

\* (mutant) detectGesture without its catch clause
detectGestureNoCatch(frame, tool, prev) ==
    IF InvalidFrame(frame)
    THEN [ret |-> NONE, prev |-> prev, faulted |-> FALSE]
    ELSE LET t == TryDetect(frame, tool, prev)
         IN  IF t.faulted
             THEN [ret |-> THROWN, prev |-> t.prev, faulted |-> TRUE]
             ELSE [ret |-> t.ret, prev |-> t.prev, faulted |-> FALSE]

\* gestures.ts detectGesture: [ret, prev, faulted]; ret = THROWN would be an
\* exception leaving the function
detectGesture(frame, tool, prev) ==
    IF InvalidFrame(frame)
    THEN [ret |-> NONE, prev |-> prev, faulted |-> FALSE]
    ELSE LET t == TryDetect(frame, tool, prev)
         IN  IF t.faulted
             THEN [ret |-> NONE, prev |-> t.prev, faulted |-> TRUE]
             ELSE [ret |-> t.ret, prev |-> t.prev, faulted |-> FALSE]

---------------------------------------------------------------------------
(* Input frames: a hand of 21 landmarks around a wrist at (0.50, 0.90),    *)
(* index MCP (0.45, 0.76), middle MCP (0.55, 0.76): hand scale 0.10.       *)

Wrist == Lm(50, 90)

\* thumb tip: thumb hundredths to the right of the index tip (-15: away
\* from it, to the left)
ThumbTip(raise, thumb) == Lm(45 + thumb, 76 - raise)

\* raise: indexMCP.y - indexTip.y; midTipY: y of the middle finger tip
MkHand(raise, midTipY, thumb) ==
    << Wrist, Lm(44, 86), Lm(40, 84), Lm(36, 82), ThumbTip(raise, thumb),
       Lm(45, 76), Lm(45, 71), Lm(45, 74), Lm(45, 76 - raise),
       Lm(55, 76), Lm(55, 71), Lm(55, 74), Lm(55, midTipY),
       Lm(60, 77), Lm(60, 74), Lm(60, 76), Lm(60, 79),
       Lm(64, 79), Lm(64, 77), Lm(64, 78), Lm(64, 80) >>

\* the landmarks scaled by k about the wrist (landmark 0)
ScaleAboutWrist(s, k) ==
    [i \in 1..Len(s) |->
        [def |-> s[i].def,
         x |-> s[1].x + k * (s[i].x - s[1].x),
         y |-> s[1].y + k * (s[i].y - s[1].y),
         z |-> s[1].z + k * (s[i].z - s[1].z)]]

InUnitSquare(s) ==
    \A i \in 1..Len(s) : s[i].x \in 0..100 /\ s[i].y \in 0..100

\* the middle finger tip is at y = 78 when curled (below its PIP) and at
\* y = 46 when extended
\* hands given to the stateful classifier
ClassifyHands ==
    { MkHand(r, m, t) : r \in {0, 30}, m \in {78, 46},
                        t \in {2, -15} }

\* a frame with one slot null, a frame with one landmark more, short frames
WithNull(s, i) == [s EXCEPT ![i + 1] = NullLm]
FaultyFrames ==
    { Frame(WithNull(MkHand(30, 78, -15), 8)),
      Frame(WithNull(MkHand(30, 78, -15), 20)),
      Frame(Append(MkHand(30, 78, -15), Lm(50, 50))) }
ShortFrames ==
    { AbsentFrame, Frame(<< >>),
      Frame(SubSeq(MkHand(30, 78, -15), 1, 20)) }

ClassifyFrames == { Frame(h) : h \in ClassifyHands } \cup FaultyFrames \cup ShortFrames

---------------------------------------------------------------------------
(* SpecClassify: gestures.ts behind its two callers                        *)

MaxCalls == 2

NoTimer == [armed |-> FALSE, value |-> NONE, left |-> 0]

\* no guess timeout pending
NoGuess == [armed |-> FALSE, timeLeft |-> 0, left |-> 0]

\* GameRoom.tsx lines 37-50: the state of a room that was just entered
InitGameIdle ==
    /\ gameStatus = "waiting"
    /\ timeLeft = 60
    /\ roundNumber = 1
    /\ players = << 0, 0, 0 >>
    /\ guessTimer = NoGuess

\* DrawingCanvas.tsx lines 27-28: no shape started, an empty path
InitShapeIdle ==
    /\ startPoint = << >>
    /\ path = << >>
    /\ committed = {}

\* no timeout and no animation frame is pending when the page has loaded
InitTimersIdle ==
    /\ timeouts = {}
    /\ frameRequests = {}

InitCanvasIdle ==
    /\ ctxReady = FALSE
    /\ dpr = 1
    /\ isActiveDrawer = FALSE
    /\ handLandmarks = [present |-> TRUE, len |-> 0, tip |-> [x |-> 0, y |-> 0]]
    /\ gesture = NONE
    /\ isDrawing = FALSE
    /\ strokeColor = "#000000"
    /\ strokeWidth = 5
    /\ pointsQueue = << >>
    /\ lastPosition = << >>
    /\ strokeHistory = << >>
    /\ surface = {}
    /\ animationFrame = FALSE
    /\ InitGameIdle
    /\ InitShapeIdle
    /\ InitTimersIdle

NoObs == [frame |-> AbsentFrame, tool |-> UndefinedTool, ret |-> NONE,
          faulted |-> FALSE, called |-> FALSE]

InitClassify ==
    /\ previousLandmarks = << >>
    /\ previousGesture = NONE
    /\ gestureDebounceTimer = NoTimer
    /\ currentTool = "draw"
    /\ InitCanvasIdle
    /\ lastOp = "init"
    /\ obs = NoObs
    /\ calls = 0

\* a call of the exported detectGesture(landmarks, currentTool)
DetectCall(frame, tool) ==
    /\ calls < MaxCalls
    /\ LET r == detectGesture(frame, tool, previousLandmarks)
       IN  /\ previousLandmarks' = r.prev
           /\ obs' = [frame |-> frame, tool |-> tool, ret |-> r.ret,
                      faulted |-> r.faulted, called |-> TRUE]
    /\ lastOp' = "detectGesture"
    /\ calls' = calls + 1
    /\ UNCHANGED << previousGesture, gestureDebounceTimer, currentTool, canvasVars >>

\* the handLandmarks prop the canvas reads after onGestureDetected(landmarks,
\* gesture) and setHandLandmarks(landmarks): its length and its landmark 8
Delivered(landmarks) ==
    [present |-> TRUE, len |-> Len(landmarks),
     tip |-> [x |-> At(landmarks, 8).x, y |-> At(landmarks, 8).y]]

\* HandTracker.tsx processResults on the results MediaPipe delivered: the
\* landmarks are copied field by field, then detectGesture(handLandmarks) is
\* called with one argument, and the copy and the gesture go to the room
processResults(frame) ==
    /\ calls < MaxCalls
    /\ IF ~frame.present \/ Len(frame.lms) = 0
       THEN \* no hand: nothing is classified
            /\ obs' = [NoObs EXCEPT !.frame = frame]
            /\ UNCHANGED << previousLandmarks, handLandmarks, gesture >>
       ELSE IF \E i \in 1..Len(frame.lms) : ~frame.lms[i].def
       THEN \* lm.x of a missing landmark throws in the copy, before the call
            /\ obs' = [NoObs EXCEPT !.frame = frame, !.ret = THROWN]
            /\ UNCHANGED << previousLandmarks, handLandmarks, gesture >>
       ELSE LET r == detectGesture(frame, UndefinedTool, previousLandmarks)
            IN  /\ previousLandmarks' = r.prev
                /\ obs' = [frame |-> frame, tool |-> UndefinedTool, ret |-> r.ret,
                           faulted |-> r.faulted, called |-> TRUE]
                \* line 176: the copy of the raw landmarks is handed on
                /\ handLandmarks' = Delivered(frame.lms)
                /\ gesture' = r.ret
    /\ lastOp' = "processResults"
    /\ calls' = calls + 1
    /\ UNCHANGED << previousGesture, gestureDebounceTimer, currentTool,
                    ctxReady, dpr, isActiveDrawer, isDrawing, strokeColor,
                    strokeWidth, pointsQueue, lastPosition, strokeHistory,
                    surface, animationFrame, gameVars, shapeVars, timerVars >>

\* DrawingCanvas.tsx: a tool button's onClick
setCurrentTool(tool) ==
    /\ calls < MaxCalls
    /\ currentTool' = tool
    /\ lastOp' = "setCurrentTool"
    /\ obs' = NoObs
    /\ calls' = calls + 1
    /\ UNCHANGED << classifierVars, canvasVars >>

NextClassify ==
    \/ \E f \in ClassifyFrames, t \in Tool : DetectCall(f, t)
    \/ \E f \in ClassifyFrames : processResults(f)
    \/ \E t \in Tool \ {"select"} : setCurrentTool(t)

SpecClassify == InitClassify /\ [][NextClassify]_vars

---------------------------------------------------------------------------
(* SpecScale: one frame and its copy scaled by 2 about the wrist, each     *)
(* classified from the empty smoother state                                *)

ScaleHands ==
    { MkHand(r, m, t) : r \in {0, 6, 30}, m \in {78, 46},
                        t \in {2, 3, 4, -15} }

InitScale ==
    /\ previousLandmarks = << >>
    /\ previousGesture = NONE
    /\ gestureDebounceTimer = NoTimer
    /\ currentTool = "draw"
    /\ InitCanvasIdle
    /\ lastOp = "init"
    /\ \E h \in ScaleHands, t \in Tool :
          obs = [frame |-> Frame(h), tool |-> t, ret |-> NONE, retScaled |-> NONE]
    /\ calls = 0

ClassifyBoth ==
    /\ lastOp = "init"
    /\ LET r == detectGesture(obs.frame, obs.tool, << >>)
           scaled == Frame(ScaleAboutWrist(obs.frame.lms, 2))
           r2 == detectGesture(scaled, obs.tool, << >>)
       IN  /\ previousLandmarks' = r.prev
           /\ obs' = [obs EXCEPT !.ret = r.ret, !.retScaled = r2.ret]
    /\ lastOp' = "classifyBoth"
    /\ calls' = calls + 1
    /\ UNCHANGED << previousGesture, gestureDebounceTimer, currentTool, canvasVars >>

NextScale == ClassifyBoth

SpecScale == InitScale /\ [][NextScale]_vars

---------------------------------------------------------------------------
(* Claims on the classifier of gestures.ts                                 *)

\* the decision order as the specification states it
ClaimedDecision(s, tool) ==
    IF IsPinching(s, PinchRatio) /\ tool = "erase" THEN ERASING
    ELSE IF isIndexExtended(s) /\ ~isMiddleExtended(s) /\ ~IsPinching(s, PinchRatio)
    THEN ToolGesture(tool)
    ELSE NONE

ValidCall ==
    /\ obs.called
    /\ obs.frame.present
    /\ Len(obs.frame.lms) >= 21
    /\ ~obs.faulted

\* C3: on a valid frame classify returns Erasing if pinching with tool Erase,
\* else the gesture of the tool if the index finger is extended, the middle
\* finger is not and the hand is not pinching, else None; so a pinching hand
\* or an extended middle finger never yields Drawing, Line, Rectangle, Circle.
\* (previousLandmarks is the smoothed frame the call decided on.)
C3_DecisionOrder ==
    (lastOp = "detectGesture" /\ ValidCall)
        => /\ obs.ret = ClaimedDecision(previousLandmarks, obs.tool)
           /\ (IsPinching(previousLandmarks, PinchRatio) \/ isMiddleExtended(previousLandmarks))
                 => obs.ret \notin { DRAWING, LINE, RECTANGLE, CIRCLE }

\* C4: a frame and its copy scaled by 2 about the wrist, classified with the
\* same tool from the same empty state, get the same gesture.
C4_ScaleInvariant ==
    (lastOp = "classifyBoth" /\ InUnitSquare(ScaleAboutWrist(obs.frame.lms, 2)))
        => obs.ret = obs.retScaled

\* C5: classify returns None, without throwing, for an absent frame and for a
\* frame of fewer than 21 landmarks, whatever the tool and the stored state.
C5_InvalidFrameIsNone ==
    (obs.called /\ (~obs.frame.present \/ Len(obs.frame.lms) < 21))
        => obs.ret = NONE /\ ~obs.faulted

C5_Witness ==
    /\ lastOp = "detectGesture"
    /\ obs.called
    /\ obs.frame.present
    /\ Len(obs.frame.lms) = 20
    /\ obs.tool = "draw"
    /\ Len(previousLandmarks) = 21
    /\ obs.ret = NONE

\* C6: a fault raised inside the computation of classify (a missing landmark
\* in a frame of 21 or more slots, a frame longer than the stored smoothing
\* state) is caught: the call returns None and no exception leaves classify.
C6_FaultsAreCaught ==
    obs.called => /\ obs.ret # THROWN
                  /\ obs.faulted => obs.ret = NONE

C6_Witness ==
    /\ obs.called
    /\ obs.faulted
    /\ obs.ret = NONE
    /\ Len(obs.frame.lms) > Len(previousLandmarks)
    /\ Len(previousLandmarks) = 21

\* C7: the classification the pipeline performs next after a tool was
\* selected classifies with the selected tool.
C7_ToolTakesEffect ==
    [][ (lastOp = "setCurrentTool" /\ lastOp' = "processResults"
            /\ obs'.called /\ ~obs'.faulted /\ Len(obs'.frame.lms) >= 21)
        => obs'.ret = Decide(previousLandmarks', currentTool) ]_vars

\* C29: once initialized, the stored state of the smoother has exactly 21
\* entries, after any sequence of classify calls with frames of any length.
C29_StateHasFrameLength ==
    Len(previousLandmarks) > 0 => Len(previousLandmarks) = FrameLength

---------------------------------------------------------------------------
(* SpecDebounce: the debounced classifier of part_004 under a clock.       *)
(* Time advances in steps of TimeStep ms; frames may arrive at any instant *)
(* (so also more often than the debounce delay); a timer that is due fires *)
(* before the next frame is classified and before time advances further.   *)

TimeStep == 75
MaxDebounceCalls == 4

\* index raised, thumb away; the middle finger curled (tip low) or stretched
DrawHand == MkHand(30, 96, -15)
OpenHand == MkHand(30, 16, -15)
PinchHand == MkHand(30, 96, 2)

DebounceFrames ==
    { Frame(DrawHand), Frame(OpenHand), Frame(PinchHand),
      Frame(SubSeq(DrawHand, 1, 20)) }

\* part_004 detectGesture, the try block up to detectedGesture:
\* [faulted, detected, prev]
TryDetect004(frame, prev) ==
    LET sm == smoothLandmarks004(prev, frame.lms)
    IN  IF sm.fault THEN [faulted |-> TRUE, detected |-> NONE, prev |-> sm.prev]
        ELSE IF GeometryFaults(sm.out, Needed004)
        THEN [faulted |-> TRUE, detected |-> NONE, prev |-> sm.prev]
        ELSE [faulted |-> FALSE, detected |-> Decide004(sm.out), prev |-> sm.prev]

\* part_004 detectGesture: [ret, prev, timer, detected, faulted, raw];
\* raw says whether a raw classification was computed
detectGesture004(frame, prev, stable, timer) ==
    IF InvalidFrame(frame)
    THEN [ret |-> NONE, prev |-> prev, timer |-> timer, detected |-> NONE,
          faulted |-> FALSE, raw |-> FALSE]
    ELSE LET t == TryDetect004(frame, prev)
         IN  IF t.faulted
             THEN [ret |-> NONE, prev |-> t.prev, timer |-> timer,
                   detected |-> NONE, faulted |-> TRUE, raw |-> FALSE]
             ELSE IF t.detected # stable
             THEN \* clearTimeout, setTimeout(..., gestureDebounceDelay)
                  [ret |-> stable, prev |-> t.prev,
                   timer |-> [armed |-> TRUE, value |-> t.detected,
                              left |-> gestureDebounceDelay],
                   detected |-> t.detected, faulted |-> FALSE, raw |-> TRUE]
             ELSE [ret |-> t.detected, prev |-> t.prev, timer |-> timer,
                   detected |-> t.detected, faulted |-> FALSE, raw |-> TRUE]

AgeCap == gestureDebounceDelay + TimeStep
Min(a, b) == IF a <= b THEN a ELSE b

\* observer of single-frame flips away from a stable Drawing:
\*   idle -> flipped  a frame classified None while the stable gesture is
\*                    Drawing, no timer is pending and the frame before was
\*                    classified Drawing
\*   flipped -> back  the next frame classified Drawing, sooner than the
\*                    debounce delay after the frame before the flip
\*   back -> back     every later frame classified Drawing
FlipAfter(r) ==
    IF ~r.raw THEN "idle"
    ELSE CASE obs.flip = "idle" ->
                IF /\ previousGesture = DRAWING
                   /\ ~gestureDebounceTimer.armed
                   /\ obs.detected = DRAWING
                   /\ r.detected = NONE
                THEN "flipped" ELSE "idle"
           [] obs.flip = "flipped" ->
                IF r.detected = DRAWING /\ obs.flipAge < gestureDebounceDelay
                THEN "back" ELSE "idle"
           [] OTHER ->
                IF r.detected = DRAWING THEN "back" ELSE "idle"

NoObs004 == [called |-> FALSE, ret |-> NONE, detected |-> NONE, raw |-> FALSE,
             faulted |-> FALSE, flip |-> "idle", flipAge |-> 0,
             cand |-> NONE, candAge |-> 0, candClean |-> FALSE, sinceFrame |-> 0]

InitDebounce ==
    /\ previousLandmarks = << >>
    /\ previousGesture = NONE
    /\ gestureDebounceTimer = NoTimer
    /\ currentTool = "draw"
    /\ InitCanvasIdle
    /\ lastOp = "init"
    /\ obs = NoObs004
    /\ calls = 0

\* a call of detectGesture(landmarks) by the render loop of the tracker
DetectCall004(frame) ==
    /\ calls < MaxDebounceCalls
    /\ ~(gestureDebounceTimer.armed /\ gestureDebounceTimer.left <= 0)
    /\ LET r == detectGesture004(frame, previousLandmarks, previousGesture,
                                 gestureDebounceTimer)
           flip == FlipAfter(r)
           same == r.raw /\ obs.raw /\ r.detected = obs.cand
           \* the raw classification leaves the stable gesture for a new value:
           \* no timer is pending and the frame before (if any) was classified
           \* as the stable gesture
           clean == /\ r.raw
                    /\ r.detected # previousGesture
                    /\ ~gestureDebounceTimer.armed
                    /\ lastOp = "init" \/ (obs.raw /\ obs.detected = previousGesture)
       IN  /\ previousLandmarks' = r.prev
           /\ gestureDebounceTimer' = r.timer
           /\ obs' = [called |-> TRUE, ret |-> r.ret, detected |-> r.detected,
                      raw |-> r.raw, faulted |-> r.faulted,
                      flip |-> flip,
                      flipAge |-> IF obs.flip = "idle" THEN 0 ELSE obs.flipAge,
                      cand |-> r.detected,
                      candAge |-> IF same THEN obs.candAge ELSE 0,
                      candClean |-> IF same THEN obs.candClean ELSE clean,
                      sinceFrame |-> 0]
    /\ lastOp' = "detectGesture"
    /\ calls' = calls + 1
    /\ UNCHANGED << previousGesture, currentTool, canvasVars >>

\* the callback given to window.setTimeout (part_004 lines 128-131)
DebounceFire ==
    /\ gestureDebounceTimer.armed
    /\ gestureDebounceTimer.left <= 0
    /\ previousGesture' = gestureDebounceTimer.value
    /\ gestureDebounceTimer' = NoTimer
    /\ lastOp' = "timer"
    /\ obs' = [obs EXCEPT !.called = FALSE]
    /\ UNCHANGED << previousLandmarks, currentTool, canvasVars, calls >>

\* TimeStep ms pass
Tick ==
    /\ ~(gestureDebounceTimer.armed /\ gestureDebounceTimer.left <= 0)
    /\ obs.sinceFrame < AgeCap
    /\ gestureDebounceTimer' =
          IF gestureDebounceTimer.armed
          THEN [gestureDebounceTimer EXCEPT !.left = @ - TimeStep]
          ELSE gestureDebounceTimer
    /\ obs' = [obs EXCEPT !.called = FALSE,
                          !.flipAge = Min(@ + TimeStep, AgeCap),
                          !.candAge = Min(@ + TimeStep, AgeCap),
                          !.sinceFrame = Min(@ + TimeStep, AgeCap)]
    /\ lastOp' = "tick"
    /\ UNCHANGED << previousLandmarks, previousGesture, currentTool, canvasVars, calls >>

NextDebounce ==
    \/ \E f \in DebounceFrames : DetectCall004(f)
    \/ DebounceFire
    \/ Tick

SpecDebounce == InitDebounce /\ [][NextDebounce]_vars

\* C1: with the stable gesture at Drawing, a single frame classified None
\* followed, sooner than the debounce delay, by frames classified Drawing
\* again never shows: every classify call during and after the flip
\* returns Drawing.
C1_FlickerSuppressed ==
    (obs.called /\ obs.flip \in { "flipped", "back" }) => obs.ret = DRAWING

\* C2: when the raw classification leaves the stable gesture for a new value
\* X and is X on every later frame, then once the debounce delay has elapsed
\* since the change classify returns X, whatever the rate at which the
\* frames arrive.
C2_AdoptedAfterDelay ==
    (obs.called /\ obs.raw /\ obs.candClean /\ obs.candAge > gestureDebounceDelay)
        => obs.ret = obs.cand

\* C22: the value classify returns changes only when the debounce timer
\* fires; in particular two classify calls with nothing between them (no
\* timer fired, no time passed) return the same value, for every input
\* frame, short frames included.
C22_ReturnChangesOnlyOnFire ==
    [][ (lastOp = "detectGesture" /\ lastOp' = "detectGesture")
        => obs'.ret = obs.ret ]_vars

---------------------------------------------------------------------------
(* SpecTimers: the debounced classifier of part_004 with the browser's     *)
(* table of pending timeouts.  gestureDebounceTimer holds the handle that  *)
(* window.setTimeout returned, or NoTimer for null; a timeout is in the    *)
(* table from setTimeout until it runs or is cleared.                      *)

\* the handle window.setTimeout returns for the id-th timeout
Handle(value, id) ==
    [armed |-> TRUE, value |-> value, left |-> gestureDebounceDelay, id |-> id]

\* window.clearTimeout(handle): the timeout with that id leaves the table
clearTimeout(table, handle) == { t \in table : t.id # handle.id }

\* lines 122-131 without the clearTimeout
armTimeoutNoClear(table, handle, new) == table \cup { new }

\* lines 122-131: clearTimeout of the handle if it is not null, then
\* setTimeout
armTimeout(table, handle, new) ==
    (IF handle.armed THEN clearTimeout(table, handle) ELSE table) \cup { new }

NoTimerObs == [called |-> FALSE, armed |-> FALSE, cleared |-> FALSE,
               ran |-> 0, handle |-> 0]

InitTimers ==
    /\ previousLandmarks = << >>
    /\ previousGesture = NONE
    /\ gestureDebounceTimer = NoTimer
    /\ currentTool = "draw"
    /\ InitCanvasIdle
    /\ lastOp = "init"
    /\ obs = NoTimerObs
    /\ calls = 0

TimerFrame ==
    UNCHANGED << currentTool, ctxReady, dpr, isActiveDrawer, handLandmarks,
                 gesture, isDrawing, strokeColor, strokeWidth, pointsQueue,
                 lastPosition, strokeHistory, surface, animationFrame, gameVars,
                 shapeVars >>

\* a call of detectGesture(landmarks); calls counts the calls, which bounds
\* the ids setTimeout hands out
DetectCallTimers(frame) ==
    /\ calls < MaxDebounceCalls
    /\ \A t \in timeouts : t.left > 0
    /\ LET r == detectGesture004(frame, previousLandmarks, previousGesture,
                                 gestureDebounceTimer)
           arms == r.raw /\ r.detected # previousGesture
           new == Handle(r.detected, calls + 1)
       IN  /\ previousLandmarks' = r.prev
           /\ gestureDebounceTimer' = IF arms THEN new ELSE gestureDebounceTimer
           /\ timeouts' = IF arms THEN armTimeout(timeouts, gestureDebounceTimer, new)
                          ELSE timeouts
           /\ obs' = [NoTimerObs EXCEPT !.called = TRUE, !.armed = arms,
                                        !.cleared = (arms /\ timeouts # {})]
    /\ lastOp' = "detectGesture"
    /\ calls' = calls + 1
    /\ UNCHANGED << previousGesture, frameRequests >>
    /\ TimerFrame

\* lines 128-131: a pending timeout whose delay has elapsed runs its
\* callback, which writes the stable gesture and sets the handle to null
TimeoutRuns ==
    /\ \E t \in timeouts :
         /\ t.left <= 0
         /\ timeouts' = timeouts \ { t }
         /\ previousGesture' = t.value
         /\ obs' = [NoTimerObs EXCEPT !.ran = t.id,
                                      !.handle = IF gestureDebounceTimer.armed
                                                 THEN gestureDebounceTimer.id ELSE 0]
    /\ gestureDebounceTimer' = NoTimer
    /\ lastOp' = "timer"
    /\ UNCHANGED << previousLandmarks, calls, frameRequests >>
    /\ TimerFrame

\* TimeStep ms pass for every pending timeout; a timeout that is due runs
\* before more time passes
TimePasses ==
    /\ timeouts # {}
    /\ \A t \in timeouts : t.left > 0
    /\ timeouts' = { [t EXCEPT !.left = @ - TimeStep] : t \in timeouts }
    /\ lastOp' = "tick"
    /\ obs' = NoTimerObs
    /\ UNCHANGED << previousLandmarks, previousGesture, gestureDebounceTimer, calls,
                    frameRequests >>
    /\ TimerFrame

NextTimers ==
    \/ \E f \in DebounceFrames : DetectCallTimers(f)
    \/ TimeoutRuns
    \/ TimePasses

SpecTimers == InitTimers /\ [][NextTimers]_vars

\* C23: at most one debounce timeout is pending at any time, and it is the
\* one gestureDebounceTimer holds: a timeout that was superseded has been
\* cleared, so the callback that runs is never that of a superseded timer.
C23_OneTimerOutstanding ==
    /\ Cardinality(timeouts) <= 1
    /\ \A t \in timeouts : gestureDebounceTimer.armed /\ gestureDebounceTimer.id = t.id
    /\ (lastOp = "timer") => obs.ran = obs.handle

\* classify armed a timer while an earlier one was still pending
C23_Witness ==
    /\ lastOp = "detectGesture"
    /\ obs.armed
    /\ obs.cleared
    /\ Cardinality(timeouts) = 1


---------------------------------------------------------------------------
(* The drawing canvas of part_002                                          *)
(*                                                                         *)
(* A canvas point [x, y, d] is the point (x/d, y/d) in CSS pixels: input   *)
(* points have d = 1, interpolated points have d = steps.  The surface is  *)
(* the set of path vertices that were stroked; a snapshot (ImageData) is   *)
(* the part of it getImageData captured.                                   *)

Pt(px, py) == [x |-> px, y |-> py, d |-> 1]

\* canvas.getBoundingClientRect()
CanvasRect == [width |-> 100, height |-> 100]

GapThreshold == 15
StepLength == 5
MinDistance == 1

\* (b - a), squared length, as a fraction [num, den]
Dist2Q(a, b) ==
    [num |-> (b.x * a.d - a.x * b.d) * (b.x * a.d - a.x * b.d)
             + (b.y * a.d - a.y * b.d) * (b.y * a.d - a.y * b.d),
     den |-> a.d * b.d * a.d * b.d]

\* distance(a, b) > len
FartherThan(a, b, len) == Dist2Q(a, b).num > len * len * Dist2Q(a, b).den

\* Math.floor(distance / 5) for input points a, b
StepsBetween(a, b) == ISqrt(Dist2Q(a, b).num \div (StepLength * StepLength * Dist2Q(a, b).den))

RECURSIVE Gcd(_, _)
Gcd(a, b) == IF b = 0 THEN a ELSE Gcd(b, a % b)

\* the same point written in lowest terms
Reduced(p) ==
    LET g == Gcd(Gcd(p.x, p.y), p.d)
    IN  [x |-> p.x \div g, y |-> p.y \div g, d |-> p.d \div g]

\* lastPoint + (p - lastPoint) * i / steps, for input points (d = 1)
Interpolated(lastPoint, p, i, steps) ==
    Reduced([x |-> lastPoint.x * steps + (p.x - lastPoint.x) * i,
             y |-> lastPoint.y * steps + (p.y - lastPoint.y) * i,
             d |-> steps])

\* part_002 lines 199-218: the points one hand frame appends to the queue
HandPush(lastPoint, p) ==
    IF ~FartherThan(lastPoint, p, MinDistance) THEN << >>
    ELSE IF FartherThan(lastPoint, p, GapThreshold)
    THEN LET steps == StepsBetween(lastPoint, p)
         IN  [i \in 1..(steps - 1) |-> Interpolated(lastPoint, p, i, steps)] \o << p >>
    ELSE << p >>

\* part_002 lines 274-286: the points one pointer move appends to the queue
PointerPush(lastPoint, p) ==
    IF ~FartherThan(lastPoint, p, MinDistance) THEN << >> ELSE << p >>

\* the index tip of a hand frame in canvas pixels (part_002 lines 185-189)
HandPixel(hand) ==
    Pt(((100 - hand.tip.x) * CanvasRect.width) \div 100,
       (hand.tip.y * CanvasRect.height) \div 100)

\* getImageData(0, 0, canvas.width / dpr, canvas.height / dpr) reads device
\* pixels: a vertex at CSS (x, y) lies at device (x * dpr, y * dpr)
Captured(p, ratio) ==
    /\ p.x * ratio < CanvasRect.width * p.d
    /\ p.y * ratio < CanvasRect.height * p.d

getImageData(surf, ratio) == { p \in surf : Captured(p, ratio) }

\* putImageData(img, 0, 0) replaces the device pixels the image covers
putImageData(surf, img, ratio) == { p \in surf : ~Captured(p, ratio) } \cup img

\* the state the handlers of the component read and write
CanvasState ==
    [isDrawing |-> isDrawing, queue |-> pointsQueue, last |-> lastPosition,
     history |-> strokeHistory, pushed |-> << >>, from |-> << >>, src |-> "none",
     ended |-> 0]

\* part_002 lines 175-233: the effect on [handLandmarks, gesture, isDrawing,
\* isActiveDrawer], run once on state st with the props hand and g
HandEffect(st, hand, g) ==
    IF ~hand.present \/ ~isActiveDrawer \/ ~ctxReady THEN st
    ELSE IF hand.len < 9 THEN st
    ELSE LET p == HandPixel(hand)
         IN  IF g = DRAWING
             THEN IF ~st.isDrawing
                  THEN [st EXCEPT !.queue = << p >>, !.isDrawing = TRUE,
                                  !.last = << p >>]
                  ELSE LET lastPoint == IF st.last = << >> THEN p ELSE st.last[1]
                           push == HandPush(lastPoint, p)
                       IN  IF push = << >> THEN st
                           ELSE [st EXCEPT !.queue = @ \o push, !.last = << p >>,
                                           !.pushed = push, !.from = << lastPoint >>,
                                           !.src = "hand"]
             ELSE IF st.isDrawing
             THEN [st EXCEPT !.isDrawing = FALSE, !.last = << >>,
                             !.history = Append(@, getImageData(surface, dpr)),
                             !.queue = << >>, !.ended = @ + 1]
             ELSE st

\* a change of isDrawing renders the component again and runs the effect
\* again, on the props of the last hand frame, until isDrawing is settled
Settle(was, st, hand, g) ==
    IF st.isDrawing = was THEN st
    ELSE LET st1 == HandEffect(st, hand, g)
         IN  IF st1.isDrawing = st.isDrawing THEN st1
             ELSE HandEffect(st1, hand, g)

MaxQueue == 4
MaxHistory == 2

CanvasPoints == { Pt(10, 40), Pt(10, 46), Pt(10, 58) }

\* hand frames as the canvas reads them: presence, length, landmark 8
HandAt(tx, ty) == [present |-> TRUE, len |-> 21, tip |-> [x |-> tx, y |-> ty]]
NoHand == [present |-> FALSE, len |-> 0, tip |-> [x |-> 0, y |-> 0]]
ShortHand == [present |-> TRUE, len |-> 8, tip |-> [x |-> 0, y |-> 0]]
\* the frames delivered to the canvas: a drawing hand at two places, a hand
\* that does not draw, no hand, and a frame too short to hold landmark 8
CanvasFrames ==
    { << HandAt(90, 40), DRAWING >>,
      << HandAt(90, 58), DRAWING >>, << HandAt(90, 40), NONE >>,
      << NoHand, NONE >>, << ShortHand, DRAWING >> }

NoCanvasObs == [pushed |-> << >>, from |-> << >>, src |-> "none", n |-> 0, popped |-> {},
                ink |-> FALSE, again |-> FALSE, arg |-> << >>, ended |-> 0]

InitCanvas ==
    /\ previousLandmarks = << >>
    /\ previousGesture = NONE
    /\ gestureDebounceTimer = NoTimer
    /\ currentTool = "draw"
    /\ ctxReady \in BOOLEAN
    /\ dpr \in {1, 2}
    /\ isActiveDrawer \in BOOLEAN
    /\ handLandmarks = [present |-> TRUE, len |-> 0, tip |-> [x |-> 0, y |-> 0]]
    /\ gesture = NONE
    /\ isDrawing = FALSE
    /\ strokeColor = "#000000"
    /\ strokeWidth = 5
    /\ pointsQueue = << >>
    /\ lastPosition = << >>
    /\ strokeHistory = << >>
    /\ surface = {}
    /\ animationFrame = FALSE
    /\ InitGameIdle
    /\ InitShapeIdle
    /\ InitTimersIdle
    /\ lastOp = "init"
    /\ obs = NoCanvasObs
    /\ calls = 0

\* a commit that loses the point pushed last
CommitPartial(st, op) ==
    /\ Len(st.queue) <= MaxQueue
    /\ Len(st.history) <= MaxHistory
    /\ isDrawing' = st.isDrawing
    /\ pointsQueue' = IF st.pushed = << >> THEN st.queue
                      ELSE SubSeq(st.queue, 1, Len(st.queue) - 1)
    /\ lastPosition' = st.last
    /\ strokeHistory' = st.history
    /\ animationFrame' = IF st.isDrawing = isDrawing THEN animationFrame ELSE st.isDrawing
    /\ lastOp' = op
    /\ obs' = [NoCanvasObs EXCEPT !.pushed = st.pushed, !.from = st.from, !.src = st.src,
                                  !.ended = st.ended]
    /\ UNCHANGED << classifierVars, currentTool, ctxReady, dpr, isActiveDrawer,
                    strokeColor, strokeWidth, surface, gameVars, shapeVars,
                    timerVars, calls >>

\* writes a settled component state back; the effect of lines 157-173
\* schedules the render callback exactly while isDrawing holds
Commit(st, op) ==
    /\ Len(st.queue) <= MaxQueue
    /\ Len(st.history) <= MaxHistory
    /\ isDrawing' = st.isDrawing
    /\ pointsQueue' = st.queue
    /\ lastPosition' = st.last
    /\ strokeHistory' = st.history
    /\ animationFrame' = IF st.isDrawing = isDrawing THEN animationFrame ELSE st.isDrawing
    /\ lastOp' = op
    /\ obs' = [NoCanvasObs EXCEPT !.pushed = st.pushed, !.from = st.from, !.src = st.src,
                                  !.ended = st.ended]
    /\ UNCHANGED << classifierVars, currentTool, ctxReady, dpr, isActiveDrawer,
                    strokeColor, strokeWidth, surface, gameVars, shapeVars,
                    timerVars, calls >>

\* GameRoom.handleGestureDetected delivers a frame: new props, then the effect
HandFrame(hand, g) ==
    /\ handLandmarks' = hand
    /\ gesture' = g
    /\ Commit(Settle(isDrawing, HandEffect(CanvasState, hand, g), hand, g), "handFrame")

\* a pointer-down that does not look for the canvas and its context
handlePointerDownUnchecked(p) ==
    /\ UNCHANGED << handLandmarks, gesture >>
    /\ IF ~isActiveDrawer
       THEN Commit(CanvasState, "pointerDown")
       ELSE Commit(Settle(isDrawing,
                          [CanvasState EXCEPT !.queue = << p >>, !.isDrawing = TRUE,
                                              !.last = << p >>],
                          handLandmarks, gesture), "pointerDown")

\* part_002 lines 235-262
handlePointerDown(p) ==
    /\ UNCHANGED << handLandmarks, gesture >>
    /\ IF ~isActiveDrawer \/ ~ctxReady
       THEN Commit(CanvasState, "pointerDown")
       ELSE Commit(Settle(isDrawing,
                          [CanvasState EXCEPT !.queue = << p >>, !.isDrawing = TRUE,
                                              !.last = << p >>],
                          handLandmarks, gesture), "pointerDown")

\* part_002 lines 264-289
handlePointerMove(p) ==
    /\ UNCHANGED << handLandmarks, gesture >>
    /\ IF ~isActiveDrawer \/ ~isDrawing \/ ~ctxReady
       THEN Commit(CanvasState, "pointerMove")
       ELSE LET lastPoint == IF lastPosition = << >> THEN p ELSE lastPosition[1]
                push == PointerPush(lastPoint, p)
            IN  IF push = << >> THEN Commit(CanvasState, "pointerMove")
                ELSE Commit([CanvasState EXCEPT !.queue = @ \o push, !.last = << p >>,
                                                !.pushed = push, !.from = << lastPoint >>,
                                                !.src = "pointer"], "pointerMove")

\* a pointer-up that ends the session without taking the snapshot
handlePointerUpNoSnapshot ==
    /\ UNCHANGED << handLandmarks, gesture >>
    /\ IF ~isActiveDrawer \/ ~isDrawing \/ ~ctxReady
       THEN Commit(CanvasState, "pointerUp")
       ELSE Commit(Settle(isDrawing,
                          [CanvasState EXCEPT !.isDrawing = FALSE, !.last = << >>,
                                              !.queue = << >>, !.ended = 1],
                          handLandmarks, gesture), "pointerUp")

\* part_002 lines 291-308; pointer cancel and pointer leave run it too
handlePointerUp ==
    /\ UNCHANGED << handLandmarks, gesture >>
    /\ IF ~isActiveDrawer \/ ~isDrawing \/ ~ctxReady
       THEN Commit(CanvasState, "pointerUp")
       ELSE Commit(Settle(isDrawing,
                          [CanvasState EXCEPT !.isDrawing = FALSE, !.last = << >>,
                                              !.history = Append(@, getImageData(surface, dpr)),
                                              !.queue = << >>, !.ended = 1],
                          handLandmarks, gesture), "pointerUp")

\* (a + b) / 2
Midpoint(a, b) ==
    Reduced([x |-> a.x * b.d + b.x * a.d, y |-> a.y * b.d + b.y * a.d,
             d |-> 2 * a.d * b.d])

\* a path of the context: where moveTo put the pen, then the segments, each
\* with its control point and its end point (a lineTo is its own control)
Segment(ctrl, end) == [ctrl |-> ctrl, end |-> end]

\* a path that stops at the midpoint before the last point
StrokedPathNoTail(points) ==
    [start |-> << points[1] >>,
     segs |-> [i \in 1..(Len(points) - 1) |->
                  Segment(points[i], Midpoint(points[i], points[i + 1]))]]

\* part_002 lines 122-145: beginPath, moveTo(points[0]), then a line to the
\* second of two points, or a curve to each midpoint and a last curve to the
\* last point
StrokedPath(points) ==
    IF Len(points) = 2
    THEN [start |-> << points[1] >>, segs |-> << Segment(points[2], points[2]) >>]
    ELSE [start |-> << points[1] >>,
          segs |-> [i \in 1..(Len(points) - 1) |->
                       IF i <= Len(points) - 2
                       THEN Segment(points[i], Midpoint(points[i], points[i + 1]))
                       ELSE Segment(points[Len(points) - 1], points[Len(points)])]]

\* part_001 lines 94-105: moveTo(points[0]), a curve to the midpoint after
\* each inner point, then lineTo(the last point)
StrokedPath001(points) ==
    [start |-> << points[1] >>,
     segs |-> [i \in 1..(Len(points) - 1) |->
                  IF i <= Len(points) - 2
                  THEN Segment(points[i + 1], Midpoint(points[i + 1], points[i + 2]))
                  ELSE Segment(points[Len(points)], points[Len(points)])]]

PathEnd(pth) == pth.segs[Len(pth.segs)].end

\* the queued points a stroked path was built from: the start, the control
\* points and the last end point
PathVertices(pth) ==
    { pth.start[1], PathEnd(pth) } \cup { pth.segs[i].ctrl : i \in 1..Len(pth.segs) }

\* part_002 lines 104-155: one run of the scheduled render callback
drawPoints ==
    /\ animationFrame
    /\ surface' = IF ~ctxReady \/ Len(pointsQueue) < 2 THEN surface
                  ELSE surface \cup PathVertices(StrokedPath(pointsQueue))
    /\ pointsQueue' = IF ~ctxReady \/ Len(pointsQueue) < 2 THEN pointsQueue
                      ELSE << pointsQueue[Len(pointsQueue)] >>
    /\ lastOp' = "drawPoints"
    /\ obs' = [NoCanvasObs EXCEPT !.n = Len(pointsQueue)]
    /\ UNCHANGED << classifierVars, currentTool, ctxReady, dpr, isActiveDrawer,
                    handLandmarks, gesture, isDrawing, strokeColor, strokeWidth,
                    lastPosition, strokeHistory, animationFrame, gameVars, shapeVars,
                    timerVars, calls >>

\* what a clear leaves alone
ClearFrame ==
    UNCHANGED << classifierVars, currentTool, ctxReady, dpr, isActiveDrawer,
                 handLandmarks, gesture, isDrawing, strokeColor, strokeWidth,
                 lastPosition, animationFrame, gameVars, shapeVars,
                    timerVars, calls >>

\* the history length and the presence of ink a command found, and whether
\* the command repeats the operation before it
CommandObs(op) ==
    [NoCanvasObs EXCEPT !.n = Len(strokeHistory), !.ink = (surface # {}),
                        !.again = (lastOp = op)]

\* a clear that forgets setStrokeHistory([])
clearKeepsHistory ==
    /\ surface' = IF ctxReady THEN {} ELSE surface
    /\ UNCHANGED strokeHistory
    /\ pointsQueue' = IF ctxReady THEN << >> ELSE pointsQueue
    /\ lastOp' = "clear"
    /\ obs' = CommandObs("clear")
    /\ ClearFrame

\* part_002 lines 310-326
clearCanvas ==
    /\ surface' = IF ctxReady THEN {} ELSE surface
    /\ strokeHistory' = IF ctxReady THEN << >> ELSE strokeHistory
    /\ pointsQueue' = IF ctxReady THEN << >> ELSE pointsQueue
    /\ lastOp' = "clear"
    /\ obs' = CommandObs("clear")
    /\ ClearFrame

\* what an undo leaves alone
UndoFrame ==
    UNCHANGED << classifierVars, currentTool, ctxReady, dpr, isActiveDrawer,
                 handLandmarks, gesture, isDrawing, strokeColor, strokeWidth,
                 pointsQueue, lastPosition, animationFrame, gameVars, shapeVars,
                    timerVars, calls >>

UndoObs ==
    [CommandObs("undo") EXCEPT !.popped = IF strokeHistory = << >> THEN {}
                                  ELSE strokeHistory[Len(strokeHistory)]]

\* an undo that puts back the snapshot it has just popped
undoRestoresPopped ==
    /\ IF strokeHistory = << >> \/ ~ctxReady
       THEN UNCHANGED << strokeHistory, surface >>
       ELSE /\ strokeHistory' = SubSeq(strokeHistory, 1, Len(strokeHistory) - 1)
            /\ surface' = putImageData({}, strokeHistory[Len(strokeHistory)], dpr)
    /\ lastOp' = "undo"
    /\ obs' = UndoObs
    /\ UndoFrame

\* an undo without the check of line 329
undoWithoutEmptyCheck ==
    /\ IF ~ctxReady
       THEN UNCHANGED << strokeHistory, surface >>
       ELSE LET newHistory == SubSeq(strokeHistory, 1, Len(strokeHistory) - 1)
            IN  /\ strokeHistory' = newHistory
                /\ surface' = IF newHistory = << >> THEN {}
                              ELSE putImageData({}, newHistory[Len(newHistory)], dpr)
    /\ lastOp' = "undo"
    /\ obs' = UndoObs
    /\ UndoFrame

\* part_002 lines 328-352
undoLastStroke ==
    /\ IF strokeHistory = << >> \/ ~ctxReady
       THEN UNCHANGED << strokeHistory, surface >>
       ELSE LET newHistory == SubSeq(strokeHistory, 1, Len(strokeHistory) - 1)
            IN  /\ strokeHistory' = newHistory
                /\ surface' = IF newHistory = << >> THEN {}
                              ELSE putImageData({}, newHistory[Len(newHistory)], dpr)
    /\ lastOp' = "undo"
    /\ obs' = UndoObs
    /\ UndoFrame

NextCanvas ==
    \/ \E f \in CanvasFrames : HandFrame(f[1], f[2])
    \/ \E p \in CanvasPoints : handlePointerDown(p)
    \/ \E p \in CanvasPoints : handlePointerMove(p)
    \/ handlePointerUp
    \/ drawPoints
    \/ clearCanvas
    \/ undoLastStroke

SpecCanvas == InitCanvas /\ [][NextCanvas]_vars

---------------------------------------------------------------------------
(* The commands of the canvas: the tool buttons of DrawingCanvas.tsx, the  *)
(* style setters, and clear and undo of part_002, on strokes drawn with    *)
(* the pointer                                                             *)

CommandFrame ==
    UNCHANGED << classifierVars, ctxReady, dpr, isActiveDrawer, handLandmarks, gesture,
                 isDrawing, pointsQueue, lastPosition, strokeHistory, surface,
                 animationFrame, gameVars, shapeVars,
                    timerVars, calls >>

\* a tool button that toggles: a click on the selected tool goes back to draw
selectToolToggles(tool) ==
    /\ currentTool' = IF currentTool = tool THEN "draw" ELSE tool
    /\ lastOp' = "selectTool"
    /\ obs' = [CommandObs("selectTool") EXCEPT !.arg = << tool >>,
                   !.again = (lastOp = "selectTool" /\ obs.arg = << tool >>)]
    /\ UNCHANGED << strokeColor, strokeWidth >>
    /\ CommandFrame

\* DrawingCanvas.tsx lines 179-208: onClick={() => setCurrentTool(tool)}
selectTool(tool) ==
    /\ currentTool' = tool
    /\ lastOp' = "selectTool"
    /\ obs' = [CommandObs("selectTool") EXCEPT !.arg = << tool >>,
                   !.again = (lastOp = "selectTool" /\ obs.arg = << tool >>)]
    /\ UNCHANGED << strokeColor, strokeWidth >>
    /\ CommandFrame

\* the setters of useState (lines 21-22): setStrokeColor, setStrokeWidth
setStrokeStyle(color, width) ==
    /\ strokeColor' = color
    /\ strokeWidth' = width
    /\ lastOp' = "setStrokeStyle"
    /\ obs' = [CommandObs("setStrokeStyle") EXCEPT !.arg = << color, width >>,
                   !.again = (lastOp = "setStrokeStyle" /\ obs.arg = << color, width >>)]
    /\ UNCHANGED currentTool
    /\ CommandFrame

StrokeColors == { "#000000", "#ff0000" }
StrokeWidths == { 5, 8 }
CommandTools == { "draw", "line", "erase" }

NextCommands ==
    \/ handlePointerDown(Pt(10, 40))
    \/ handlePointerMove(Pt(10, 58))
    \/ handlePointerUp
    \/ drawPoints
    \/ clearCanvas
    \/ undoLastStroke
    \/ \E t \in CommandTools : selectTool(t)
    \/ \E c \in StrokeColors, w \in StrokeWidths : setStrokeStyle(c, w)

SpecCommands == InitCanvas /\ [][NextCommands]_vars

---------------------------------------------------------------------------
(* Claims about the canvas                                                 *)

\* the input point before the last push, followed by what was pushed
PushedPath == obs.from \o obs.pushed

\* C8: whenever a handler appends a real input point that lies further than
\* the gap threshold (15 px) from the previous real input point of the
\* session, hand or pointer, the points it appends are spaced so that no two
\* consecutive points from the previous input point to the new one are
\* further apart than the step length (5 px).
C8_GapGuarantee ==
    (/\ obs.src \in {"hand", "pointer"}
     /\ FartherThan(obs.from[1], obs.pushed[Len(obs.pushed)], GapThreshold))
    => \A i \in 1..(Len(PushedPath) - 1) :
           ~FartherThan(PushedPath[i], PushedPath[i + 1], StepLength)

\* C9: an undo on a history of N >= 1 snapshots leaves the first N-1 of them
\* as the history and the surface equal to snapshot N-1, or blank if N = 1;
\* hence N undos after N strokes end with an empty history and a blank surface.
C9_UndoRestoresPrevious ==
    [][ (lastOp' = "undo" /\ strokeHistory # << >> /\ ctxReady)
        => /\ strokeHistory' = SubSeq(strokeHistory, 1, Len(strokeHistory) - 1)
           /\ surface' = IF Len(strokeHistory) = 1 THEN {}
                         ELSE strokeHistory[Len(strokeHistory) - 1] ]_vars

\* an undo of the second of two strokes put back the first stroke's ink
C9_Witness ==
    /\ lastOp = "undo"
    /\ obs.n = 2
    /\ Len(strokeHistory) = 1
    /\ surface = strokeHistory[1]
    /\ surface # {}
    /\ obs.popped # surface

\* C10: an undo on an empty history changes neither the surface nor the
\* history nor the point queue, nor anything else of the component.
C10_UndoOnEmptyIsNoOp ==
    [][ (lastOp' = "undo" /\ strokeHistory = << >>)
        => UNCHANGED << surface, strokeHistory, pointsQueue, isDrawing,
                        lastPosition, animationFrame >> ]_vars

\* an undo on an empty history acted while the first stroke's ink was on the surface
C10_Witness ==
    /\ lastOp = "undo"
    /\ obs.n = 0
    /\ strokeHistory = << >>
    /\ surface # {}
    /\ isDrawing

\* C11: a clear on an existing surface, with or without an active session,
\* leaves the surface blank and the history empty, and an undo that follows
\* it changes nothing.
C11_ClearEmptiesAll ==
    [][ /\ (lastOp' = "clear" /\ ctxReady)
            => (surface' = {} /\ strokeHistory' = << >>)
        /\ (lastOp = "clear" /\ lastOp' = "undo" /\ ctxReady)
            => UNCHANGED << surface, strokeHistory, pointsQueue >> ]_vars

\* a clear acted during a session, on a surface with ink and a history
C11_Witness ==
    /\ lastOp = "clear"
    /\ isDrawing
    /\ obs.ink
    /\ obs.n >= 1
    /\ surface = {}
    /\ strokeHistory = << >>

Commands == { "selectTool", "setStrokeStyle", "clear", "undo" }

\* the second of two equal commands in a row, with no session active
RepeatedCommand ==
    /\ ~isDrawing
    /\ lastOp \in Commands
    /\ lastOp' = lastOp
    /\ obs'.arg = obs.arg

CommandState == << surface, strokeHistory, currentTool, strokeColor, strokeWidth >>

\* C12 as stated: with no session active, the second of two equal
\* selectTool, setStrokeStyle, clear or undo commands in a row changes
\* neither the surface, the history, the tool nor the style.
C12_CommandsIdempotent ==
    [][ RepeatedCommand => UNCHANGED CommandState ]_vars

\* C12 amended: the same for selectTool, setStrokeStyle and clear, and for
\* undo on an empty history; an undo on a non-empty history pops one more
\* snapshot every time.
C12_IdempotentButUndo ==
    [][ (RepeatedCommand /\ (lastOp = "undo" => strokeHistory = << >>))
            => UNCHANGED CommandState ]_vars

\* a tool was selected twice in a row on a canvas with a stroke in its history
C12_Witness ==
    /\ lastOp = "selectTool"
    /\ obs.again
    /\ currentTool = "line"
    /\ ~isDrawing
    /\ strokeHistory # << >>
    /\ surface # {}

---------------------------------------------------------------------------
(* The smoothers alone, on coordinates in units of 1 / (100 * FineUnit)    *)
(* and weights in units of 1 / (1000 * FineUnit), so that rounding stays   *)
(* two orders of magnitude below a hundredth                               *)

FineUnit == 100
MaxSmoothCalls == 4

\* gestures.ts smoothLandmarks at the fine resolution
smoothLandmarksFine(prev, landmarks) ==
    SmoothOrReset(Len(prev) = 0, prev, landmarks,
                  smoothingFactor * FineUnit, MinSmoothing * FineUnit, VelocityGain,
                  1000 * FineUnit)

\* part_004 smoothLandmarks at the fine resolution
smoothLandmarks004Fine(prev, landmarks) ==
    SmoothOrReset(Len(prev) = 0 \/ Len(prev) # Len(landmarks), prev, landmarks,
                  smoothingFactor004 * FineUnit, MinSmoothing004 * FineUnit,
                  VelocityGain004, 1000 * FineUnit)

\* a frame of n landmarks in a column at x hundredths
ColumnFrame(xh, n) ==
    [i \in 1..n |-> [def |-> TRUE, x |-> xh * FineUnit, y |-> 4 * i * FineUnit, z |-> 0]]

SmoothColumns == { 6, 14, 52, 91 }
SmoothCounts == { 21, 22 }
SmoothFrames == { ColumnFrame(xh, n) : xh \in SmoothColumns, n \in SmoothCounts }

\* the largest distance between the landmarks two frames have in common
Displacement(a, b) ==
    LET n == IF Len(a) <= Len(b) THEN Len(a) ELSE Len(b)
        d(i) == ISqrt((b[i].x - a[i].x) * (b[i].x - a[i].x)
                      + (b[i].y - a[i].y) * (b[i].y - a[i].y)
                      + (b[i].z - a[i].z) * (b[i].z - a[i].z))
    IN  IF n = 0 THEN 0 ELSE CHOOSE m \in { d(i) : i \in 1..n } :
                                 \A i \in 1..n : d(i) <= m

NoSmoothObs ==
    [variant |-> "gestures.ts", called |-> FALSE, in |-> << >>, before |-> << >>,
     out |-> << >>, fault |-> FALSE, steady |-> FALSE, rawMax |-> 0, outStep |-> 0]

InitSmooth ==
    /\ previousLandmarks = << >>
    /\ previousGesture = NONE
    /\ gestureDebounceTimer = NoTimer
    /\ currentTool = "draw"
    /\ InitCanvasIdle
    /\ lastOp = "init"
    /\ obs \in { [NoSmoothObs EXCEPT !.variant = v] : v \in { "gestures.ts", "part_004" } }
    /\ calls = 0

\* what a call of a smoother is recorded as: steady says that the run of
\* frames since the stored state was last empty kept one landmark count and
\* never threw; rawMax is the largest raw displacement of that run
SmoothObs(landmarks, r) ==
    LET first == Len(previousLandmarks) = 0 \/ ~obs.called
        steady == IF first THEN TRUE
                  ELSE obs.steady /\ ~r.fault /\ Len(landmarks) = Len(obs.in)
    IN  [variant |-> obs.variant, called |-> TRUE, in |-> landmarks,
         before |-> previousLandmarks, out |-> r.out, fault |-> r.fault,
         steady |-> steady,
         rawMax |-> IF first THEN 0 ELSE Max(obs.rawMax, Displacement(obs.in, landmarks)),
         outStep |-> IF first \/ r.fault THEN 0 ELSE Displacement(previousLandmarks, r.out)]

SmoothStep(landmarks, r, op) ==
    /\ calls < MaxSmoothCalls
    /\ previousLandmarks' = r.prev
    /\ obs' = SmoothObs(landmarks, r)
    /\ lastOp' = op
    /\ calls' = calls + 1
    /\ UNCHANGED << previousGesture, gestureDebounceTimer, currentTool, canvasVars >>

\* gestures.ts line 79: smoothLandmarks(landmarks)
SmoothCall(landmarks) ==
    /\ obs.variant = "gestures.ts"
    /\ SmoothStep(landmarks, smoothLandmarksFine(previousLandmarks, landmarks), "smooth")

\* part_004: smoothLandmarks(landmarks)
SmoothCall004(landmarks) ==
    /\ obs.variant = "part_004"
    /\ SmoothStep(landmarks, smoothLandmarks004Fine(previousLandmarks, landmarks), "smooth004")

NextSmooth ==
    \/ \E f \in SmoothFrames : SmoothCall(f)
    \/ \E f \in SmoothFrames : SmoothCall004(f)

SpecSmooth == InitSmooth /\ [][NextSmooth]_vars

\* C13: on the first call, and on a call whose landmark count differs from
\* the stored count, the smoother stores the input, returns it unchanged and
\* does not throw.
C13_ResetStoresVerbatim ==
    (obs.called /\ (Len(obs.before) = 0 \/ Len(obs.before) # Len(obs.in)))
        => /\ ~obs.fault
           /\ obs.out = obs.in
           /\ previousLandmarks = obs.in

\* C28: after every smooth call that returns, the stored state equals, value
\* for value, the frame the call returned: the clone of the input after a
\* reset, the smoothed output (not the raw input) after a blend.
C28_StateIsOutput ==
    (obs.called /\ ~obs.fault) => previousLandmarks = obs.out

\* a blend returned a frame that differs from the raw input
C28_Witness ==
    /\ obs.called
    /\ ~obs.fault
    /\ Len(obs.before) > 0
    /\ obs.out # obs.in
    /\ previousLandmarks = obs.out

\* the parameters of the smoother that is running, at the fine resolution
FineBase == (IF obs.variant = "part_004" THEN smoothingFactor004 ELSE smoothingFactor) * FineUnit
FineFloor == (IF obs.variant = "part_004" THEN MinSmoothing004 ELSE MinSmoothing) * FineUnit
FineGain == IF obs.variant = "part_004" THEN VelocityGain004 ELSE VelocityGain
FineOne == 1000 * FineUnit
\* the coordinate 1.0
FineTop == 100 * FineUnit

Coordinates(lm) == << lm.x, lm.y, lm.z >>
Between(v, a, b, slack) == Min(a, b) - slack <= v /\ v <= Max(a, b) + slack

\* the last call blended its input with the stored state
Blended ==
    /\ obs.called
    /\ ~obs.fault
    /\ Len(obs.before) > 0
    /\ obs.variant = "part_004" => Len(obs.before) = Len(obs.in)

\* the weight is within its bounds, and every coordinate of the output lies
\* between the stored and the raw coordinate and has moved at most the
\* fraction 1 - w_min of their difference, both within slack units; the
\* state stays in [0, 1] within slack units
WeightBounds(slack) ==
    Blended =>
        \A i \in 1..Len(obs.out) :
            LET w == DynSmoothing(Velocity(obs.before[i], obs.in[i]),
                                  FineBase, FineFloor, FineGain)
            IN  /\ FineFloor <= w
                /\ w <= FineBase
                /\ \A k \in 1..3 :
                      LET prev == Coordinates(obs.before[i])[k]
                          raw == Coordinates(obs.in[i])[k]
                          out == Coordinates(obs.out[i])[k]
                      IN  /\ Between(out, prev, raw, slack)
                          /\ Abs(out - prev) * FineOne
                                <= (FineOne - FineFloor) * Abs(raw - prev) + slack * FineOne
                          /\ (0 <= raw /\ raw <= FineTop)
                                => (-slack <= Coordinates(previousLandmarks[i])[k]
                                    /\ Coordinates(previousLandmarks[i])[k] <= FineTop + slack)

C14_SmoothingBounded ==
    (obs.called /\ obs.steady) => obs.outStep <= obs.rawMax

---------------------------------------------------------------------------
(* Scenarios                                                               *)

\* index tip 0.3 above the index MCP, middle tip below its PIP, thumb tip
\* 0.3 hand scales from the index tip
ScenarioHand(s) ==
    /\ At(s, 5).y - At(s, 8).y = 30
    /\ At(s, 12).y > At(s, 10).y
    /\ Dist2(At(s, 4), At(s, 8)) * 100 = 9 * Dist2(At(s, 5), At(s, 9))

JumpPoints == { Pt(10, 10), Pt(10, 200), Pt(10, 12) }

NextJump ==
    \/ \E p \in JumpPoints : handlePointerDown(p)
    \/ \E p \in JumpPoints : handlePointerMove(p)
    \/ handlePointerUp
    \/ drawPoints

SpecJump == InitCanvas /\ [][NextJump]_vars

\* C16: in a session whose last accepted point is (10,10), one pointer event
\* at (10,200) appends at least 37 intermediate points before (10,200).
C16_ScenarioJump ==
    (/\ lastOp = "pointerMove"
     /\ obs.src = "pointer"
     /\ obs.from = << Pt(10, 10) >>
     /\ obs.pushed[Len(obs.pushed)] = Pt(10, 200))
    => Len(obs.pushed) - 1 >= 37

---------------------------------------------------------------------------
(* More claims about the canvas                                            *)

\* C17: while the canvas or its 2D context is missing, no operation (hand
\* frame, pointer down, move or up, render step, clear, undo) changes the
\* session flag, the point queue, the history or anything drawn.
C17_NoSurfaceNoEffect ==
    [][ ~ctxReady => UNCHANGED << isDrawing, pointsQueue, strokeHistory, surface,
                                  lastPosition, animationFrame >> ]_vars

\* the active drawer pressed the pointer on a canvas without a context
C17_Witness ==
    /\ ~ctxReady
    /\ isActiveDrawer
    /\ lastOp = "pointerDown"
    /\ ~isDrawing
    /\ pointsQueue = << >>

\* C19: when an active session ends (the gesture stops being Drawing, or
\* the pointer goes up), the queued points are stroked to the surface before
\* the snapshot is taken and the queue is cleared: no segment that was
\* accepted is dropped without being rendered.
C19_FlushBeforeSnapshot ==
    [][ (/\ isDrawing
         /\ ~isDrawing'
         /\ Len(strokeHistory') = Len(strokeHistory) + 1
         /\ Len(pointsQueue) >= 2)
        => /\ pointsQueue' = << >>
           /\ \A i \in 1..Len(pointsQueue) : pointsQueue[i] \in surface' ]_vars

\* C20: a snapshot is pushed exactly once per completed stroke and never
\* otherwise: every hand frame, pointer event, render step, undo and clear
\* leaves the history as long as the strokes completed since the last clear
\* less the undo calls that popped; step by step, a clear empties it, an
\* undo of a non-empty history shortens it by one, and any other step
\* lengthens it by the number of sessions the step ended.
C20_SnapshotPerStroke ==
    [][ Len(strokeHistory') =
          IF lastOp' = "clear" THEN 0
          ELSE IF lastOp' = "undo"
          THEN Len(strokeHistory) - (IF strokeHistory # << >> /\ ctxReady THEN 1 ELSE 0)
          ELSE Len(strokeHistory) + obs'.ended ]_vars

\* a second stroke was completed by a pointer-up, cancel or leave
C20_Witness ==
    /\ lastOp = "pointerUp"
    /\ obs.ended = 1
    /\ ~isDrawing
    /\ Len(strokeHistory) = 2

\* C24: a render step with fewer than 2 queued points changes neither the
\* queue nor the surface; with 2 or more it strokes one path that starts at
\* the first queued point and ends at the last, and leaves in the queue
\* exactly the point that was last before the step.
C24_RenderStep ==
    [][ (lastOp' = "drawPoints" /\ ctxReady)
        => IF Len(pointsQueue) < 2
           THEN UNCHANGED << pointsQueue, surface >>
           ELSE /\ StrokedPath(pointsQueue).start = << pointsQueue[1] >>
                /\ PathEnd(StrokedPath(pointsQueue)) = pointsQueue[Len(pointsQueue)]
                /\ StrokedPath001(pointsQueue).start = << pointsQueue[1] >>
                /\ PathEnd(StrokedPath001(pointsQueue)) = pointsQueue[Len(pointsQueue)]
                /\ surface' = surface \cup PathVertices(StrokedPath(pointsQueue))
                /\ pointsQueue' = << pointsQueue[Len(pointsQueue)] >> ]_vars

\* a render step stroked a queue of three or more points
C24_Witness ==
    /\ lastOp = "drawPoints"
    /\ ctxReady
    /\ obs.n >= 3
    /\ Len(pointsQueue) = 1
    /\ pointsQueue[1] \in surface

\* C26: a push of an input point with the intermediate points synthesized
\* for it is one queue mutation: the render step that follows a landmark
\* callback or a pointer event finds every point of its push in the queue,
\* in order, at the end of the queue.
C26_AtomicPush ==
    [][ (lastOp' = "drawPoints" /\ obs.pushed # << >>)
        => /\ Len(pointsQueue) >= Len(obs.pushed)
           /\ SubSeq(pointsQueue, Len(pointsQueue) - Len(obs.pushed) + 1,
                     Len(pointsQueue)) = obs.pushed ]_vars

\* a render step stroked a queue whose last push was a subdivided gap
C26_Witness ==
    /\ lastOp = "drawPoints"
    /\ obs.n >= 4
    /\ Pt(10, 52) \in surface

---------------------------------------------------------------------------
(* The game room: rounds, the round timer and the simulated guess          *)
(* (GameRoom.tsx).  Time advances in whole seconds, the period of the      *)
(* round timer; isActiveDrawer is the room's isDrawer, which it hands to   *)
(* the canvas.                                                             *)

RoundSeconds == 60
LastRound == 3
MaxGames == 1

\* the delay of the simulated guess, Math.random() * 30000 + 15000 ms, in
\* the whole seconds that have elapsed when it fires
GuessDelays == { 15, 30, 44 }

\* Math.floor((timeLeft / 60) * 100)
guessScore(t) == (t * 100) \div 60

NoGameObs == [added |-> 0, timeLeft |-> 0, player |-> 0]

InitGame ==
    /\ previousLandmarks = << >>
    /\ previousGesture = NONE
    /\ gestureDebounceTimer = NoTimer
    /\ currentTool = "draw"
    /\ ctxReady = FALSE
    /\ dpr = 1
    /\ isActiveDrawer = TRUE
    /\ handLandmarks = [present |-> TRUE, len |-> 0, tip |-> [x |-> 0, y |-> 0]]
    /\ gesture = NONE
    /\ isDrawing = FALSE
    /\ strokeColor = "#000000"
    /\ strokeWidth = 5
    /\ pointsQueue = << >>
    /\ lastPosition = << >>
    /\ strokeHistory = << >>
    /\ surface = {}
    /\ animationFrame = FALSE
    /\ InitGameIdle
    /\ InitShapeIdle
    /\ InitTimersIdle
    /\ lastOp = "init"
    /\ obs = NoGameObs
    /\ calls = 0

GameFrame ==
    UNCHANGED << previousLandmarks, previousGesture, gestureDebounceTimer,
                 currentTool, ctxReady, dpr, handLandmarks, gesture, isDrawing,
                 strokeColor, strokeWidth, pointsQueue, lastPosition,
                 strokeHistory, surface, animationFrame, shapeVars,
                 timerVars >>

\* lines 114-134: the effect runs when gameStatus or isDrawer changed; its
\* timeout callback keeps the timeLeft of the render that scheduled it
ArmGuess(status, drawer, t) ==
    IF status = "playing" /\ drawer
    THEN { [armed |-> TRUE, timeLeft |-> t, left |-> d] : d \in GuessDelays }
    ELSE { NoGuess }

\* lines 53-72: three seconds after the room starts waiting the round begins
StartRound ==
    /\ gameStatus = "waiting"
    /\ isActiveDrawer' = TRUE
    /\ timeLeft' = RoundSeconds
    /\ gameStatus' = "playing"
    /\ guessTimer' \in ArmGuess("playing", TRUE, RoundSeconds)
    /\ lastOp' = "startRound"
    /\ obs' = NoGameObs
    /\ UNCHANGED << roundNumber, players, calls >>
    /\ GameFrame

\* lines 75-90: the interval of the round timer; a guess that is due fires
\* before the next second passes
TickSecond ==
    /\ gameStatus = "playing"
    /\ guessTimer.armed => guessTimer.left > 0
    /\ IF timeLeft <= 1
       THEN /\ timeLeft' = 0
            /\ gameStatus' = "round-end"
            /\ guessTimer' = NoGuess
       ELSE /\ timeLeft' = timeLeft - 1
            /\ gameStatus' = gameStatus
            /\ guessTimer' = IF guessTimer.armed
                             THEN [guessTimer EXCEPT !.left = @ - 1]
                             ELSE guessTimer
    /\ lastOp' = "tick"
    /\ obs' = NoGameObs
    /\ UNCHANGED << isActiveDrawer, roundNumber, players, calls >>
    /\ GameFrame

\* lines 118-130: the timeout of the simulated guess; player is the index
\* Math.floor(Math.random() * (players.length - 1)) + 1, counted from one
GuessFires ==
    /\ guessTimer.armed
    /\ guessTimer.left = 0
    /\ \E player \in 2..Len(players) :
         /\ players' = [players EXCEPT ![player] = @ + guessScore(guessTimer.timeLeft)]
         /\ obs' = [added |-> players'[player] - players[player],
                    timeLeft |-> timeLeft, player |-> player]
    /\ gameStatus' = "round-end"
    /\ guessTimer' = NoGuess
    /\ lastOp' = "guess"
    /\ UNCHANGED << isActiveDrawer, timeLeft, roundNumber, calls >>
    /\ GameFrame

\* a round end that closes the game whatever the round number is
RoundEndAtOnce ==
    /\ gameStatus = "round-end"
    /\ gameStatus' = "game-end"
    /\ guessTimer' = NoGuess
    /\ lastOp' = "roundEnd"
    /\ obs' = NoGameObs
    /\ UNCHANGED << isActiveDrawer, timeLeft, roundNumber, players, calls >>
    /\ GameFrame

\* lines 93-106: five seconds after a round ended
RoundEnd ==
    /\ gameStatus = "round-end"
    /\ IF roundNumber >= LastRound
       THEN /\ gameStatus' = "game-end"
            /\ roundNumber' = roundNumber
       ELSE /\ roundNumber' = roundNumber + 1
            /\ gameStatus' = "waiting"
    /\ guessTimer' = NoGuess
    /\ lastOp' = "roundEnd"
    /\ obs' = NoGameObs
    /\ UNCHANGED << isActiveDrawer, timeLeft, players, calls >>
    /\ GameFrame

\* lines 244-247: the Play Again button of the final screen; calls counts
\* the games played again
PlayAgain ==
    /\ gameStatus = "game-end"
    /\ calls < MaxGames
    /\ calls' = calls + 1
    /\ roundNumber' = 1
    /\ gameStatus' = "waiting"
    /\ guessTimer' = NoGuess
    /\ lastOp' = "playAgain"
    /\ obs' = NoGameObs
    /\ UNCHANGED << isActiveDrawer, timeLeft, players >>
    /\ GameFrame

NextGame ==
    \/ StartRound
    \/ TickSecond
    \/ GuessFires
    \/ RoundEnd
    \/ PlayAgain

SpecGame == InitGame /\ [][NextGame]_vars

\* the timeouts and the interval of the room are browser timers: one that is
\* pending and not cleared runs
SpecGameLive ==
    /\ SpecGame
    /\ WF_vars(StartRound)
    /\ WF_vars(TickSecond)
    /\ WF_vars(GuessFires)
    /\ WF_vars(RoundEnd)

\* C18: the score added for a correct guess is floor(timeLeft / 60 * 100)
\* with timeLeft the time remaining at the moment of the guess.
C18_ScoreFollowsTimeLeft ==
    lastOp = "guess" => obs.added = (obs.timeLeft * 100) \div 60

---------------------------------------------------------------------------
(* The canvas with shape tools (DrawingCanvas.tsx).  The surface is the    *)
(* set of marks stroked on it; a mark is a line, a rectangle, a circle or  *)
(* a stroked path, with the points that define it.                         *)

EraseRadius == 20
MaxShapeFrames == 4

\* lines 64-66: landmark 8 in canvas pixels (not mirrored)
HandPixelPlain(hand) ==
    Pt((hand.tip.x * CanvasRect.width) \div 100,
       (hand.tip.y * CanvasRect.height) \div 100)

\* elements of the context's current path: a point reached by moveTo or
\* lineTo, or a full arc about a centre
PathPoint(p) == [kind |-> "pt", p |-> p, r2 |-> 0]
PathArc(c, r2) == [kind |-> "arc", p |-> c, r2 |-> r2]

\* marks: kind, two defining points, and the path elements of a stroked path
Mark(kind, a, b, els) == [kind |-> kind, a |-> a, b |-> b, els |-> els]
NoMark == Mark("none", Pt(0, 0), Pt(0, 0), << >>)
LineMark(a, b) == Mark("line", a, b, << >>)
RectMark(a, b) == Mark("rect", a, b, << >>)
CircleMark(c, b) == Mark("circle", c, b, << >>)
\* ctx.stroke() of the current path
PathMark(els) == Mark("path", Pt(0, 0), Pt(0, 0), els)

ZoomPoint(p, ratio) == [p EXCEPT !.x = @ * ratio, !.y = @ * ratio]

\* lines 87-90: the canvas is copied pixel for pixel to a temporary canvas
\* and drawn back through the context, whose transform is scale(dpr, dpr):
\* what was on the canvas comes back magnified dpr times about the origin
ZoomMark(m, ratio) ==
    [m EXCEPT !.a = ZoomPoint(@, ratio), !.b = ZoomPoint(@, ratio),
              !.els = [i \in 1..Len(@) |->
                          [@[i] EXCEPT !.p = ZoomPoint(@, ratio),
                                       !.r2 = @ * ratio * ratio]]]

Redrawn(s, ratio) == { ZoomMark(m, ratio) : m \in s }

\* the points that define a mark
MarkPoints(m) ==
    IF m.kind = "path" THEN { m.els[i].p : i \in 1..Len(m.els) } ELSE { m.a, m.b }

InDisc(v, c) == Dist2Q(v, c).num <= EraseRadius * EraseRadius * Dist2Q(v, c).den

\* lines 147-152: the disc about c is cleared; a mark is kept while none of
\* the points that define it is in the disc
Erased(s, c) == { m \in s : \A v \in MarkPoints(m) : ~InDisc(v, c) }

NoShapeObs == [preview |-> FALSE, same |-> FALSE, mark |-> NoMark,
               erased |-> FALSE, at |-> << >>, n |-> 0, thrown |-> FALSE]

\* the array the room starts with, useState<HandLandmark[]>([])
EmptyHand == [present |-> TRUE, len |-> 0, tip |-> [x |-> 0, y |-> 0]]

ShapeGestures == { DRAWING, LINE, RECTANGLE, CIRCLE, ERASING, NONE }
ShapeTips == { << 30, 30 >>, << 60, 60 >> }

\* the frames delivered to the canvas: a hand at two places under every
\* gesture the switch handles, no hand, the empty array and an array too
\* short to hold landmark 8
ShapeFrames ==
    { << HandAt(t[1], t[2]), g >> : t \in ShapeTips, g \in ShapeGestures }
    \cup { << NoHand, NONE >>, << EmptyHand, NONE >>, << ShortHand, DRAWING >> }

InitShapes ==
    /\ previousLandmarks = << >>
    /\ previousGesture = NONE
    /\ gestureDebounceTimer = NoTimer
    /\ currentTool = "draw"
    /\ ctxReady = TRUE
    /\ dpr \in {1, 2}
    /\ isActiveDrawer = TRUE
    /\ handLandmarks = NoHand
    /\ gesture = NONE
    /\ isDrawing = FALSE
    /\ strokeColor = "#000000"
    /\ strokeWidth = 5
    /\ pointsQueue = << >>
    /\ lastPosition = << >>
    /\ strokeHistory = << >>
    /\ surface = {}
    /\ animationFrame = FALSE
    /\ InitGameIdle
    /\ InitShapeIdle
    /\ InitTimersIdle
    /\ lastOp = "init"
    /\ obs = NoShapeObs
    /\ calls = 0

ShapeFrame ==
    UNCHANGED << classifierVars, currentTool, ctxReady, dpr, isActiveDrawer,
                 strokeColor, strokeWidth, pointsQueue, strokeHistory,
                 animationFrame, gameVars, timerVars >>

\* lines 81-98, 100-119 and 121-144: the first frame of a shape fixes the
\* start point; every later frame redraws the canvas from its own copy and
\* strokes the shape from the start point to p
ShapePreview(p, mark, newPath) ==
    IF startPoint = << >>
    THEN /\ startPoint' = << p >>
         /\ committed' = surface
         /\ obs' = NoShapeObs
         /\ UNCHANGED << surface, path, isDrawing >>
    ELSE /\ surface' = Redrawn(surface, dpr) \cup { mark }
         /\ path' = newPath
         /\ obs' = [NoShapeObs EXCEPT !.preview = TRUE, !.mark = mark,
                                      !.same = (gesture' = gesture)]
         /\ UNCHANGED << startPoint, committed, isDrawing >>

\* lines 56-160: the effect on [handLandmarks, gesture, isActiveDrawer]; the
\* room delivers a frame, the tip is landmark 8, lastPointRef keeps it
ShapeHandFrame(hand, g) ==
    /\ calls < MaxShapeFrames
    /\ calls' = calls + 1
    /\ handLandmarks' = hand
    /\ gesture' = g
    /\ lastOp' = "handFrame"
    /\ ShapeFrame
    /\ IF ~hand.present \/ ~isActiveDrawer \/ ~ctxReady
       THEN /\ obs' = NoShapeObs
            /\ UNCHANGED << surface, path, isDrawing, startPoint, committed,
                            lastPosition >>
       ELSE IF hand.len < 9
       THEN \* lines 65-66: handLandmarks[8] is undefined and reading its x
            \* throws a TypeError out of the effect
            /\ obs' = [NoShapeObs EXCEPT !.thrown = TRUE]
            /\ UNCHANGED << surface, path, isDrawing, startPoint, committed,
                            lastPosition >>
       ELSE LET p == HandPixelPlain(hand)
                start == startPoint[1]
            IN  /\ lastPosition' = << p >>
                /\ CASE g = DRAWING ->
                          /\ IF ~isDrawing
                             THEN /\ path' = << PathPoint(p) >>
                                  /\ isDrawing' = TRUE
                                  /\ UNCHANGED surface
                             ELSE /\ path' = Append(path, PathPoint(p))
                                  /\ surface' = surface \cup { PathMark(path') }
                                  /\ UNCHANGED isDrawing
                          /\ obs' = NoShapeObs
                          /\ UNCHANGED << startPoint, committed >>
                     [] g = LINE ->
                          ShapePreview(p, LineMark(start, p),
                                       << PathPoint(start), PathPoint(p) >>)
                     [] g = RECTANGLE ->
                          ShapePreview(p, RectMark(start, p), path)
                     [] g = CIRCLE ->
                          ShapePreview(p, CircleMark(start, p),
                                       << PathArc(start, Dist2Q(start, p).num) >>)
                     [] g = ERASING ->
                          /\ surface' = Erased(surface, p)
                          /\ path' = << PathArc(p, EraseRadius * EraseRadius) >>
                          /\ obs' = [NoShapeObs EXCEPT !.erased = TRUE, !.at = << p >>,
                                                       !.n = Len(strokeHistory)]
                          /\ UNCHANGED << isDrawing, startPoint, committed >>
                     [] g = NONE ->
                          /\ isDrawing' = FALSE
                          /\ startPoint' = << >>
                          /\ committed' = {}
                          /\ obs' = NoShapeObs
                          /\ UNCHANGED << surface, path >>

\* lines 164-174: the whole canvas is cleared
clearShapes ==
    /\ surface' = IF ctxReady THEN {} ELSE surface
    /\ lastOp' = "clear"
    /\ obs' = NoShapeObs
    /\ ShapeFrame
    /\ UNCHANGED << handLandmarks, gesture, isDrawing, lastPosition, shapeVars, calls >>

NextShapes ==
    \/ \E f \in ShapeFrames : ShapeHandFrame(f[1], f[2])
    \/ clearShapes

SpecShapes == InitShapes /\ [][NextShapes]_vars

\* C21: at every frame of a Line, Rectangle or Circle gesture that draws a
\* preview, the surface is the base committed at gesture start plus exactly
\* the one preview from the start point to the current point; no earlier
\* preview of the gesture is left on it.
C21_PreviewLeavesNoMark ==
    (lastOp = "handFrame" /\ obs.preview /\ obs.same)
    => surface = committed \cup { obs.mark }

---------------------------------------------------------------------------
(* SpecRender: the render loop of the canvas with the browser's table of   *)
(* animation-frame requests.  Here animationFrame is the id that           *)
(* animationFrameRef holds, 0 for null; calls counts the requests made,    *)
(* and the next request gets the id calls + 1.  The hand props stay at the *)
(* empty frame, so the sessions are those of the pointer.                  *)

MaxFrameRequests == 4

RenderVariants == { "part_002", "part_001" }

Scheduling(ref, table) == [ref |-> ref, table |-> table]

\* animationFrameRef.current = requestAnimationFrame(drawPoints), the new
\* id not kept
RescheduleKeepsRef(ref, table, id) == Scheduling(ref, table \cup { id })

\* animationFrameRef.current = requestAnimationFrame(drawPoints)
Reschedule(ref, table, id) == Scheduling(id, table \cup { id })

\* cancelAnimationFrame(ref)
Cancel(ref, table) == table \ { ref }

\* part_002 lines 167-172, part_001 lines 121-125: the function the effect
\* returned, run before the effect runs again
EffectCleanup(variant, ref, table) ==
    IF ref = 0 THEN Scheduling(ref, table)
    ELSE IF variant = "part_002" THEN Scheduling(0, Cancel(ref, table))
    ELSE Scheduling(ref, Cancel(ref, table))

\* part_002 lines 158-165, part_001 lines 115-119: the effect body
EffectBody(variant, drawing, ref, table, id) ==
    IF drawing
    THEN IF variant = "part_002" /\ ref # 0 THEN Scheduling(ref, table)
         ELSE Reschedule(ref, table, id)
    ELSE IF ref = 0 THEN Scheduling(ref, table)
    ELSE IF variant = "part_002" THEN Scheduling(0, Cancel(ref, table))
    ELSE Scheduling(ref, Cancel(ref, table))

\* the effect on [isDrawing, drawPoints] after isDrawing changed
isDrawingEffect(variant, drawing, ref, table, id) ==
    LET c == EffectCleanup(variant, ref, table)
    IN  EffectBody(variant, drawing, c.ref, c.table, id)

NoRenderObs == [variant |-> "part_002", stroked |-> FALSE, ran |-> 0]

InitRender ==
    /\ previousLandmarks = << >>
    /\ previousGesture = NONE
    /\ gestureDebounceTimer = NoTimer
    /\ currentTool = "draw"
    /\ ctxReady = TRUE
    /\ dpr \in {1, 2}
    /\ isActiveDrawer = TRUE
    /\ handLandmarks = [present |-> TRUE, len |-> 0, tip |-> [x |-> 0, y |-> 0]]
    /\ gesture = NONE
    /\ isDrawing = FALSE
    /\ strokeColor = "#000000"
    /\ strokeWidth = 5
    /\ pointsQueue = << >>
    /\ lastPosition = << >>
    /\ strokeHistory = << >>
    /\ surface = {}
    /\ animationFrame = 0
    /\ InitGameIdle
    /\ InitShapeIdle
    /\ InitTimersIdle
    /\ lastOp = "init"
    /\ \E v \in RenderVariants : obs = [NoRenderObs EXCEPT !.variant = v]
    /\ calls = 0

RenderFrame ==
    UNCHANGED << classifierVars, currentTool, ctxReady, dpr, isActiveDrawer,
                 handLandmarks, gesture, strokeColor, strokeWidth, gameVars,
                 shapeVars, timeouts >>

RenderObs == [NoRenderObs EXCEPT !.variant = obs.variant]

\* a change of isDrawing to drawing: the component renders again and the
\* effect runs; every request of an animation frame is counted
RenderAgain(drawing) ==
    LET e == isDrawingEffect(obs.variant, drawing, animationFrame, frameRequests,
                             calls + 1)
    IN  /\ isDrawing' = drawing
        /\ animationFrame' = e.ref
        /\ frameRequests' = e.table
        /\ calls' = IF e.table \subseteq frameRequests THEN calls ELSE calls + 1

\* part_002 lines 235-262, part_001 lines 167-183
RenderPointerDown(p) ==
    /\ calls < MaxFrameRequests
    /\ pointsQueue' = << p >>
    /\ lastPosition' = IF obs.variant = "part_002" THEN << p >> ELSE lastPosition
    /\ IF isDrawing
       THEN UNCHANGED << isDrawing, animationFrame, frameRequests, calls >>
       ELSE RenderAgain(TRUE)
    /\ lastOp' = "pointerDown"
    /\ obs' = RenderObs
    /\ UNCHANGED << strokeHistory, surface >>
    /\ RenderFrame

\* part_002 lines 264-289, part_001 lines 185-198
RenderPointerMove(p) ==
    /\ isDrawing
    /\ Len(pointsQueue) < MaxQueue
    /\ LET lastPoint == IF lastPosition = << >> THEN p ELSE lastPosition[1]
           accepted == obs.variant = "part_001" \/ PointerPush(lastPoint, p) # << >>
       IN  /\ pointsQueue' = IF accepted THEN Append(pointsQueue, p) ELSE pointsQueue
           /\ lastPosition' = IF accepted /\ obs.variant = "part_002"
                              THEN << p >> ELSE lastPosition
    /\ lastOp' = "pointerMove"
    /\ obs' = RenderObs
    /\ UNCHANGED << isDrawing, animationFrame, frameRequests, calls, strokeHistory,
                    surface >>
    /\ RenderFrame

\* part_002 lines 291-308, part_001 lines 200-215
RenderPointerUp ==
    /\ isDrawing
    /\ Len(strokeHistory) < MaxHistory
    /\ RenderAgain(FALSE)
    /\ lastPosition' = IF obs.variant = "part_002" THEN << >> ELSE lastPosition
    /\ strokeHistory' = Append(strokeHistory, getImageData(surface, dpr))
    /\ pointsQueue' = << >>
    /\ lastOp' = "pointerUp"
    /\ obs' = RenderObs
    /\ UNCHANGED surface
    /\ RenderFrame

\* part_002 lines 104-155, part_001 lines 84-112: the browser runs a pending
\* callback, which strokes the queue and requests the next frame
RenderCallback ==
    /\ calls < MaxFrameRequests
    /\ \E id \in frameRequests :
         LET strokes == Len(pointsQueue) >= 2
             pth == IF obs.variant = "part_002" THEN StrokedPath(pointsQueue)
                    ELSE StrokedPath001(pointsQueue)
             e == Reschedule(animationFrame, frameRequests \ { id }, calls + 1)
         IN  /\ surface' = IF strokes THEN surface \cup PathVertices(pth) ELSE surface
             /\ pointsQueue' = IF strokes THEN << pointsQueue[Len(pointsQueue)] >>
                               ELSE pointsQueue
             /\ animationFrame' = e.ref
             /\ frameRequests' = e.table
             /\ obs' = [RenderObs EXCEPT !.stroked = strokes, !.ran = id]
    /\ calls' = calls + 1
    /\ lastOp' = "drawPoints"
    /\ UNCHANGED << isDrawing, lastPosition, strokeHistory >>
    /\ RenderFrame

NextRender ==
    \/ \E p \in CanvasPoints : RenderPointerDown(p)
    \/ \E p \in CanvasPoints : RenderPointerMove(p)
    \/ RenderPointerUp
    \/ RenderCallback

SpecRender == InitRender /\ [][NextRender]_vars

\* C25: at every moment at most one render callback is scheduled; while
\* isDrawing is false none is scheduled, so after a session ended no render
\* step runs, and none strokes, until the next session starts.
C25_RenderLoopCancelled ==
    /\ Cardinality(frameRequests) <= 1
    /\ ~isDrawing => frameRequests = {}
    /\ lastOp = "drawPoints" => isDrawing

\* a session ended after its render callback had run and requested the
\* next frame
C25_Witness ==
    /\ lastOp = "pointerUp"
    /\ ~isDrawing
    /\ calls >= 2
    /\ surface # {}
    /\ frameRequests = {}

\* C27: every frame of an Erasing gesture clears the disc about the current
\* point and pushes no snapshot; the frame that ends the erase stroke pushes
\* exactly one snapshot.
C27_EraseStroke ==
    [][ /\ (lastOp' = "handFrame" /\ obs'.erased)
           => /\ \A m \in surface' : \A v \in MarkPoints(m) : ~InDisc(v, obs'.at[1])
              /\ strokeHistory' = strokeHistory
        /\ (lastOp' = "handFrame" /\ obs.erased /\ gesture' # ERASING
              /\ handLandmarks'.present)
           => Len(strokeHistory') = Len(strokeHistory) + 1 ]_vars

\* C31: a landmark array that is empty or too short to hold the index tip is
\* no pointer this frame: the component draws nothing, changes no session
\* state and does not throw.
C31_ShortFrameIsNoPointer ==
    [][ (lastOp' = "handFrame" /\ handLandmarks'.present /\ handLandmarks'.len < 9)
        => /\ ~obs'.thrown
           /\ UNCHANGED << surface, isDrawing, startPoint, path, pointsQueue,
                           lastPosition, strokeHistory >> ]_vars

\* C32: a snapshot captures the full raster for every device pixel ratio:
\* the snapshot pushed at the end of a stroke is the whole surface, and the
\* undo that restores it after the next stroke puts that whole surface back.
C32_SnapshotRoundTrip ==
    [][ /\ Len(strokeHistory') = Len(strokeHistory) + 1
            => strokeHistory'[Len(strokeHistory')] = surface'
        /\ (lastOp' = "undo" /\ Len(strokeHistory) >= 2 /\ ctxReady)
            => surface' = strokeHistory[Len(strokeHistory) - 1] ]_vars

\* C33: the pointer position handed to the canvas for a hand frame is the
\* index tip of the frame the smoother produced for that frame, which is the
\* stored smoothing state, not the raw landmark 8.
C33_PointerIsSmoothed ==
    (/\ lastOp = "processResults"
     /\ obs.called
     /\ ~obs.faulted
     /\ Len(obs.frame.lms) >= FrameLength)
    => handLandmarks = Delivered(previousLandmarks)

\* the queue q is still there, in order, at the head of the queue r
QueueKept(q, r) == Len(r) >= Len(q) /\ SubSeq(r, 1, Len(q)) = q

\* C34: the sessions of the two input sources do not interfere; for a session
\* started by pointer-down: the pointer-down leaves a session open, and a hand
\* frame that arrives next neither ends the session nor replaces its queue
\* nor drops a queued point.
C34_SessionsDoNotInterfere ==
    [][ /\ (lastOp' = "pointerDown" /\ isActiveDrawer /\ ctxReady)
            => (isDrawing' /\ Len(pointsQueue') = 1)
        /\ (lastOp = "pointerDown" /\ isDrawing /\ lastOp' = "handFrame")
            => (isDrawing' /\ QueueKept(pointsQueue, pointsQueue')) ]_vars

\* C35: within one stroke session the path of each render step starts where
\* the path of the step before ended, and the paths visit every accepted
\* point in order: a render step strokes from the head of the queue to its
\* last point and leaves that point as the new head, and between two render
\* steps of a session the head and the points accepted since stay queued.
C35_StrokeIsConnected ==
    [][ /\ (lastOp' = "drawPoints" /\ ctxReady /\ Len(pointsQueue) >= 2)
            => /\ StrokedPath(pointsQueue).start = << pointsQueue[1] >>
               /\ pointsQueue' = << PathEnd(StrokedPath(pointsQueue)) >>
        /\ (isDrawing /\ isDrawing' /\ lastOp' \notin { "drawPoints", "pointerDown" })
            => QueueKept(pointsQueue, pointsQueue') ]_vars

\* C36: the start point of a Line, Rectangle or Circle preview is the pointer
\* position of the first frame of the current run of that gesture: a frame
\* whose gesture differs from the gesture of the frame before (Drawing,
\* Erasing or another shape, with no None frame between) records its own
\* position as the start point, and the run keeps it.
C36_StartPointIsFresh ==
    [][ (/\ lastOp' = "handFrame"
         /\ handLandmarks'.present /\ handLandmarks'.len >= 9
         /\ gesture' \in { LINE, RECTANGLE, CIRCLE }
         /\ gesture # NONE)
        => IF gesture # gesture'
           THEN startPoint' = << HandPixelPlain(handLandmarks') >>
           ELSE startPoint # << >> => startPoint' = startPoint ]_vars

\* C37: for every frame, tool and prior state classify never returns
\* Selecting, and returns Erasing only when the active tool is Erase.
C37_ClassifierRange ==
    (lastOp = "detectGesture" /\ obs.called)
    => /\ obs.ret # SELECTING
       /\ obs.ret = ERASING => currentTool = "erase"

\* C38: a classify call that returns None because the frame is absent, short
\* or faulty leaves the state of the classifier as it was: the stored
\* smoothing state, the stable gesture and the pending debounce timer.
C38_RejectedFrameKeepsState ==
    [][ (/\ lastOp' = "detectGesture"
         /\ obs'.called
         /\ obs'.ret = NONE
         /\ InvalidFrame(obs'.frame) \/ obs'.faulted)
        => UNCHANGED << previousLandmarks, previousGesture, gestureDebounceTimer >> ]_vars

\* the moves of the status the room allows
StatusMove ==
    \/ gameStatus' = gameStatus /\ roundNumber' = roundNumber
    \/ gameStatus = "waiting" /\ gameStatus' = "playing" /\ roundNumber' = roundNumber
    \/ gameStatus = "playing" /\ gameStatus' = "round-end" /\ roundNumber' = roundNumber
    \/ gameStatus = "round-end" /\ gameStatus' = "waiting"
    \/ gameStatus = "round-end" /\ gameStatus' = "game-end"
         /\ roundNumber = LastRound /\ roundNumber' = roundNumber
    \/ gameStatus = "game-end" /\ gameStatus' = "waiting" /\ lastOp' = "playAgain"

\* C39: the status moves only along waiting -> playing -> round-end ->
\* (waiting or game-end) and game-end -> waiting through Play Again; the round
\* number stays within 1..3; game-end is entered only from round-end in round
\* 3; and every round that enters playing eventually reaches round-end.
C39_RoundStateMachine ==
    /\ [][StatusMove]_vars
    /\ [](roundNumber \in 1..LastRound)
    /\ (gameStatus = "playing") ~> (gameStatus = "round-end")

\* the third round ended and closed the game
C39_Witness ==
    /\ lastOp = "roundEnd"
    /\ gameStatus = "game-end"
    /\ roundNumber = LastRound
====
